---- MODULE Spec2Model ----
(***************************************************************************)
(* A model of the ABI reconstruction pipeline of getmefcknabi:             *)
(* WhatsABIWrapper (src/app/lib/whatsabi.ts).  The wrapper's state is its  *)
(* chain id, its ABI cache and its public client; parseContract is an      *)
(* async method, modelled as the segments between its awaits.              *)
(***************************************************************************)
EXTENDS Integers, Sequences, FiniteSets, TLC

\* ------------------------------------------------------------------------
\* Program constants
\* ------------------------------------------------------------------------

\* this.currentChainId = config?.chainId || 1
DefaultChainId == 1

\* problematicChains = [421614]
ArbitrumSepolia == 421614

Chains == {DefaultChainId, ArbitrumSepolia}

\* A JavaScript undefined / null in a field that holds a string.
Undef == "undefined"

\* An undefined in a field that holds a list of parameters.
NoList == <<[name |-> Undef, type |-> Undef]>>

\* ------------------------------------------------------------------------
\* Addresses.  "0xAB" and "0xab" are two spellings of one address, a
\* contract; "0xcd" is an address nothing is deployed at; "0xef" is a
\* contract that callers do not ask for but a proxy may point to.
\* ------------------------------------------------------------------------

ZeroAddress == "0x0000000000000000000000000000000000000000"

WellFormedAddresses == {"0xAB", "0xab", "0xcd", "0xef", ZeroAddress}

\* What a caller may hand to parseContract.
AddressInputs == {"0xAB", "0xab", "0xcd", "not-an-address", "0x", "", ZeroAddress}

\* viem's isAddress
isAddress(a) == a \in WellFormedAddresses

\* String.prototype.toLowerCase on the strings of the model
toLowerCase(a) == IF a = "0xAB" THEN "0xab" ELSE a

\* ------------------------------------------------------------------------
\* Selectors.  A selector is "0x" followed by 8 hex characters.
\* ------------------------------------------------------------------------

HexBodies == {"3659cfe6", "a9059cbb", "deadbeef"}

Selectors == {"0x" \o h : h \in HexBodies}

SelUpgradeTo == "0x3659cfe6"
SelTransfer  == "0xa9059cbb"
SelUnknown   == "0xdeadbeef"

\* item.selector.slice(2)
Slice2(sel) == CHOOSE h \in HexBodies : "0x" \o h = sel

\* ------------------------------------------------------------------------
\* Sequence helpers
\* ------------------------------------------------------------------------

\* The first index of tok in s at or after from, 0 when there is none.
IndexFrom(s, tok, from) ==
  IF \E i \in from..Len(s) : s[i] = tok
  THEN CHOOSE i \in from..Len(s) : s[i] = tok /\ \A j \in from..(i - 1) : s[j] # tok
  ELSE 0

RECURSIVE Join(_)
\* The text of a token sequence.
Join(toks) == IF toks = <<>> THEN "" ELSE Head(toks) \o Join(Tail(toks))

RECURSIVE SplitComma(_)
\* str.split(",") on tokens: the pieces between "," tokens; "" splits into [""].
SplitComma(toks) ==
  LET c == IndexFrom(toks, ",", 1) IN
  IF c = 0 THEN <<Join(toks)>>
  ELSE <<Join(SubSeq(toks, 1, c - 1))>> \o SplitComma(SubSeq(toks, c + 1, Len(toks)))

\* ------------------------------------------------------------------------
\* Signatures, as the token sequences of their text.
\* ------------------------------------------------------------------------

SigUpgradeTo == <<"upgradeTo", "(", "address", ")">>
SigTransfer  == <<"transfer", "(", "address", ",", "uint256", ")">>
SigOwner     == <<"owner", "(", ")", "returns", "(", "address", ")">>
SigNoParen   == <<"garbage">>
SigNested    == <<"f", "(", "(", "uint256", ",", "address", ")", "[]", ",", "bytes", ")">>

\* processSignature: signature.match(/^([^(]+)\(([^)]*)\)(.*)$/) and what follows
processSignature(item, sig) ==
  LET p == IndexFrom(sig, "(", 1)
      q == IF p = 0 THEN 0 ELSE IndexFrom(sig, ")", p + 1)
  IN
  IF p < 2 \/ q = 0 THEN item
  ELSE
    LET name       == Join(SubSeq(sig, 1, p - 1))
        inputsStr  == SubSeq(sig, p + 1, q - 1)
        outputsStr == SubSeq(sig, q + 1, Len(sig))
        typesIn    == SplitComma(inputsStr)
        inputs     == IF inputsStr # <<>>
                      THEN [i \in 1..Len(typesIn) |->
                              [name |-> "param" \o ToString(i - 1), type |-> typesIn[i]]]
                      ELSE <<>>
        withIn     == [item EXCEPT !.name = name, !.inputs = inputs]
        r  == IndexFrom(outputsStr, "returns", 1)
        rp == IF r = 0 THEN 0
              ELSE IF r < Len(outputsStr) /\ outputsStr[r + 1] = "(" THEN r + 1 ELSE 0
        rq == IF rp = 0 THEN 0 ELSE IndexFrom(outputsStr, ")", rp + 1)
        typesOut == SplitComma(SubSeq(outputsStr, rp + 1, rq - 1))
    IN
    IF r # 0
    THEN IF rq # 0
         THEN [withIn EXCEPT
                 !.outputs = [i \in 1..Len(typesOut) |->
                                [name |-> "output" \o ToString(i - 1), type |-> typesOut[i]]],
                 !.stateMutability = "view"]
         ELSE withIn
    ELSE [withIn EXCEPT
            !.outputs = <<>>,
            !.stateMutability =
               IF item.stateMutability = Undef THEN "nonpayable" ELSE item.stateMutability]

\* ------------------------------------------------------------------------
\* Bytecode.  A deployed bytecode is named by its hex text; what the static
\* analysis of @shazow/whatsabi finds in it is a table.  abiFromBytecode
\* gives each dispatcher entry its selector, a guessed mutability and, where
\* the code touches calldata or returns, a guessed "bytes" input or output;
\* it never gives a name.
\* ------------------------------------------------------------------------

EmptyCode == "0x"

CodeProxy  == "0x60806040aa"
CodeToken  == "0x60806040bb"
CodeOpaque == "0x60806040cc"

Codes == {CodeProxy, CodeToken, CodeOpaque}

GuessedBytes == <<[name |-> "", type |-> "bytes"]>>

FunctionItem(sel, ins, outs, mut) ==
  [type |-> "function", selector |-> sel, name |-> Undef,
   inputs |-> ins, outputs |-> outs, stateMutability |-> mut]

EventItem ==
  [type |-> "event", selector |-> Undef, name |-> Undef,
   inputs |-> NoList, outputs |-> NoList, stateMutability |-> Undef]

\* whatsabi.abiFromBytecode(code)
abiFromBytecode(code) ==
  CASE code = CodeProxy ->
         <<FunctionItem(SelUpgradeTo, GuessedBytes, NoList, "nonpayable"),
           FunctionItem(SelTransfer, NoList, GuessedBytes, "payable")>>
    [] code = CodeToken ->
         <<FunctionItem(SelTransfer, GuessedBytes, GuessedBytes, "nonpayable"),
           EventItem,
           FunctionItem(SelUnknown, NoList, NoList, "view")>>
    [] OTHER -> <<>>

\* whatsabi.selectorsFromBytecode(code)
selectorsFromBytecode(code) ==
  LET fs == SelectSeq(abiFromBytecode(code), LAMBDA it : it.type = "function")
  IN [i \in 1..Len(fs) |-> fs[i].selector]

\* ------------------------------------------------------------------------
\* Signature sources.  The aggregated lookup (this.signatureLookup) answers
\* with a list of signatures or fails (rejects, or loses the race against
\* the 3 s timer); the direct 4byte.directory request answers with a list
\* of {id, text_signature}, with a non-2xx status, or fails (fetch error,
\* 2 s timer, unparsable body).
\* ------------------------------------------------------------------------

\* The signatures the databases hold for a selector.
KnownSignatures(sel) ==
  CASE sel = SelUpgradeTo -> {SigUpgradeTo}
    [] sel = SelTransfer  -> {SigTransfer}
    [] OTHER -> {}

LookupAnswers(sel) ==
  {[kind |-> "timeout"], [kind |-> "sigs", sigs |-> <<>>]}
    \cup {[kind |-> "sigs", sigs |-> <<s>>] : s \in KnownSignatures(sel)}

DirectAnswers(sel) ==
  {[kind |-> "fetchError"], [kind |-> "notOk"], [kind |-> "ok", results |-> <<>>]}
    \cup {[kind |-> "ok", results |-> <<[id |-> 7, text_signature |-> s]>>] :
            s \in KnownSignatures(sel)}

\* Both sources answer, and neither has a signature.
NoMatch == [lookup |-> [kind |-> "sigs", sigs |-> <<>>],
            direct |-> [kind |-> "ok", results |-> <<>>]]

\* The answers the two sources may give for one item.
ItemAnswers(item) ==
  IF item.type = "function" /\ item.selector # Undef
  THEN {[lookup |-> a, direct |-> b] :
          a \in LookupAnswers(item.selector), b \in DirectAnswers(item.selector)}
  ELSE {NoMatch}

\* [...data.results].sort((a, b) => b.id - a.id)[0]
TopResult(results) ==
  LET i == CHOOSE i \in 1..Len(results) :
             /\ \A j \in 1..Len(results) : results[j].id <= results[i].id
             /\ \A j \in 1..(i - 1) : results[j].id < results[i].id
  IN results[i]

\* a || b on a field that may be undefined
OrElse(a, b) == IF a = Undef THEN b ELSE a

\* a || [] on a list that may be undefined
OrEmpty(l) == IF l = NoList THEN <<>> ELSE l

PlaceholderName(item) == "func_" \o Slice2(item.selector)

\* tryDirect4ByteApiLookup(item) given the answer of 4byte.directory
tryDirect4ByteApiLookup(item, answer) ==
  IF answer.kind = "fetchError"
  THEN \* the catch block
       IF item.name = Undef
       THEN [item EXCEPT !.name = PlaceholderName(item),
                         !.inputs = OrEmpty(item.inputs),
                         !.outputs = OrEmpty(item.outputs),
                         !.stateMutability = OrElse(item.stateMutability, "nonpayable")]
       ELSE item
  ELSE IF answer.kind = "ok" /\ Len(answer.results) > 0
            /\ TopResult(answer.results).text_signature # <<>>
  THEN processSignature(item, TopResult(answer.results).text_signature)
  ELSE IF item.name = Undef
       THEN [item EXCEPT !.name = PlaceholderName(item),
                         !.inputs = <<>>,
                         !.outputs = <<>>,
                         !.stateMutability = "nonpayable"]
       ELSE item

\* A loop body that asks 4byte.directory first and the aggregated lookup
\* only when it has nothing.
EnhanceItemDirectFirst(item, answers) ==
  IF item.type = "function" /\ item.selector # Undef
  THEN IF answers.direct.kind = "ok" /\ Len(answers.direct.results) > 0
       THEN tryDirect4ByteApiLookup(item, answers.direct)
       ELSE IF answers.lookup.kind = "sigs" /\ Len(answers.lookup.sigs) > 0
       THEN processSignature(item, answers.lookup.sigs[1])
       ELSE tryDirect4ByteApiLookup(item, answers.direct)
  ELSE item

\* The sources the loop body consults for one item, in the order of the
\* consultations.
SourcesConsulted(item, answers) ==
  IF item.type = "function" /\ item.selector # Undef
  THEN IF answers.lookup.kind = "sigs" /\ Len(answers.lookup.sigs) > 0
       THEN <<"signatureLookup">>
       ELSE <<"signatureLookup", "4byte">>
  ELSE <<>>

\* The body of the loop of enhanceAbiWithSignatures for one item.
EnhanceItem(item, answers) ==
  IF item.type = "function" /\ item.selector # Undef
  THEN IF answers.lookup.kind = "sigs" /\ Len(answers.lookup.sigs) > 0
       THEN processSignature(item, answers.lookup.sigs[1])
       ELSE tryDirect4ByteApiLookup(item, answers.direct)
  ELSE item

\* enhanceAbiWithSignatures(abi, signatureLookup); answers[i] is what the
\* sources say about abi[i].
enhanceAbiWithSignatures(abi, answers) ==
  [i \in 1..Len(abi) |-> EnhanceItem(abi[i], answers[i])]

\* Every way the sources may answer for the items of abi.
AbiAnswers(abi) ==
  {f \in [1..Len(abi) -> UNION {ItemAnswers(abi[i]) : i \in 1..Len(abi)}] :
     \A i \in 1..Len(abi) : f[i] \in ItemAnswers(abi[i])}

\* ------------------------------------------------------------------------
\* Proxy detection by storage slots (manuallyCheckForProxy)
\* ------------------------------------------------------------------------

Null == "null"

\* keccak256("eip1967.proxy.implementation") - 1
SlotEip1967Logic  == "0x360894a13ba1a3210667c828492db98dca3e2076cc3735a920a3ca505d382bbc"
\* keccak256("eip1967.proxy.beacon") - 1
SlotEip1967Beacon == "0xa3f0ad74e5423aebfd80d3ef4346578335a9a72aeaee59ff6cb3582b35133d50"
\* keccak256("org.zeppelinos.proxy.implementation")
SlotLegacyOZ      == "0x7050c9e0f4ca769c69bd3a8ef740bc37934f8e2c036e5a723fd8ee048ed3f8c3"
\* keccak256("PROXIABLE"), the EIP-1822 (UUPS) slot
SlotUUPS          == "0xc5f16f0fcc639fa48a6947836d9850f504798523bf8c9a3a87d5876cf622bcf7"
SlotZero          == "0x0000000000000000000000000000000000000000000000000000000000000000"

\* The slots the function reads, in the order it reads them.
commonImplementationSlots ==
  <<SlotEip1967Logic, SlotEip1967Beacon, SlotLegacyOZ, SlotZero>>

\* The well-known implementation slots a proxy may use, in priority order.
WellKnownSlots ==
  <<SlotEip1967Logic, SlotEip1967Beacon, SlotLegacyOZ, SlotUUPS, SlotZero>>

\* What eth_getStorageAt answers: an error, nothing ("0x" or null), a word
\* too short to hold an address ("0x1"), or a 32-byte word, given as its
\* high 12 and low 20 bytes.
StorageError == [kind |-> "error", hi |-> "", lo |-> ""]
StorageEmpty == [kind |-> "empty", hi |-> "", lo |-> ""]
StorageShort == [kind |-> "short", hi |-> "", lo |-> "1"]
Word(hi, lo) == [kind |-> "word", hi |-> hi, lo |-> lo]

ZeroHi == "000000000000000000000000"
ZeroLo == "0000000000000000000000000000000000000000"
ZeroWord == Word(ZeroHi, ZeroLo)

\* "0x" + storage.slice(storage.length - 40): of a short answer the slice is
\* the whole text, "0x" included.
Low20(storage) ==
  IF storage.kind = "short" THEN "0x" \o "0x" \o storage.lo ELSE "0x" \o storage.lo

StorageAnswers ==
  {StorageError, StorageEmpty, StorageShort, ZeroWord,
   Word(ZeroHi, "ab"), Word(ZeroHi, "ef")}

\* What eth_getCode answers for a candidate: an error, no code, or code.
CodeAnswers == {"error", EmptyCode, CodeToken}

\* One slot of a contract as the two reads see it: the slot's value and the
\* code at the address in its low 20 bytes.
SlotViews ==
  {[storage |-> s, code |-> EmptyCode] :
     s \in {StorageError, StorageEmpty, StorageShort, ZeroWord}}
    \cup {[storage |-> s, code |-> c] :
            s \in {Word(ZeroHi, "ab"), Word(ZeroHi, "ef")}, c \in CodeAnswers}

Range(f) == {f[i] : i \in DOMAIN f}

\* Every contract the reads may see.
SlotWorlds == [Range(WellKnownSlots) -> SlotViews]

\* The body of the loop for one slot, given what the two reads answer: the
\* address returned, or Null when the loop goes on to the next slot (the
\* value is empty or zero, is no address, has no code, or a read threw and
\* the catch of this iteration swallowed it).
ProbeSlot(view) ==
  IF view.storage.kind = "error" THEN Null
  ELSE IF view.storage.kind # "empty" /\ view.storage # ZeroWord
  THEN IF isAddress(Low20(view.storage))
       THEN IF view.code = "error" THEN Null
            ELSE IF view.code # Undef /\ view.code # EmptyCode
            THEN Low20(view.storage)
            ELSE Null
       ELSE Null
  ELSE Null

\* A loop without the try/catch of its body: the first read that throws
\* ends the probe in the outer catch, which returns null.
RECURSIVE CheckSlotsUntilError(_, _)
CheckSlotsUntilError(slots, world) ==
  IF slots = <<>> THEN [impl |-> Null, probed |-> <<>>]
  ELSE IF world[Head(slots)].storage.kind = "error"
          \/ (ProbeSlot([world[Head(slots)] EXCEPT !.code = CodeToken]) # Null
              /\ world[Head(slots)].code = "error")
  THEN [impl |-> Null, probed |-> <<Head(slots)>>]
  ELSE IF ProbeSlot(world[Head(slots)]) # Null
  THEN [impl |-> ProbeSlot(world[Head(slots)]), probed |-> <<Head(slots)>>]
  ELSE [CheckSlotsUntilError(Tail(slots), world) EXCEPT !.probed = <<Head(slots)>> \o @]

RECURSIVE CheckSlots(_, _)
\* for (const slot of commonImplementationSlots) { try { ... } catch { } }
\* return null: the address returned and the slots read, in order.
CheckSlots(slots, world) ==
  IF slots = <<>> THEN [impl |-> Null, probed |-> <<>>]
  ELSE IF ProbeSlot(world[Head(slots)]) # Null
  THEN [impl |-> ProbeSlot(world[Head(slots)]), probed |-> <<Head(slots)>>]
  ELSE [CheckSlots(Tail(slots), world) EXCEPT !.probed = <<Head(slots)>> \o @]

\* selectors.some(s => [...].includes(s))
isLikelyProxy(selectors) ==
  \E i \in 1..Len(selectors) :
     selectors[i] \in {"0x3659cfe6", "0x4f1ef286", "0x8f283970", "0xf851a440",
                       "0x5c60da1b", "0x5a8b35a2", "0xbb913f41", "0x7050c9e0"}

\* A probe that reads the slots only of a contract the heuristic flagged.
CheckFlaggedOnly(world, selectors) ==
  IF isLikelyProxy(selectors)
  THEN CheckSlots(commonImplementationSlots, world)
  ELSE [impl |-> Null, probed |-> <<>>]

\* manuallyCheckForProxy(contractAddress, provider, selectors), the contract's
\* slots being world
manuallyCheckForProxy(world, selectors) ==
  CheckSlots(commonImplementationSlots, world)

\* ------------------------------------------------------------------------
\* Output back-fill from the ERC-20 table (processABI, getFunctionFromABI)
\* ------------------------------------------------------------------------

Param(name, type) == [name |-> name, type |-> type]

Fragment(name, inputs, outputs, stateMutability) ==
  [type |-> "function", name |-> name, inputs |-> inputs, outputs |-> outputs,
   stateMutability |-> stateMutability]

FALLBACK_ERC20_ABI ==
  <<Fragment("name", <<>>, <<Param("", "string")>>, "view"),
    Fragment("symbol", <<>>, <<Param("", "string")>>, "view"),
    Fragment("decimals", <<>>, <<Param("", "uint8")>>, "view"),
    Fragment("totalSupply", <<>>, <<Param("", "uint256")>>, "view"),
    Fragment("balanceOf", <<Param("owner", "address")>>,
             <<Param("", "uint256")>>, "view"),
    Fragment("allowance", <<Param("owner", "address"), Param("spender", "address")>>,
             <<Param("", "uint256")>>, "view"),
    Fragment("approve", <<Param("spender", "address"), Param("amount", "uint256")>>,
             <<Param("", "bool")>>, "nonpayable"),
    Fragment("transfer", <<Param("to", "address"), Param("amount", "uint256")>>,
             <<Param("", "bool")>>, "nonpayable"),
    Fragment("transferFrom",
             <<Param("from", "address"), Param("to", "address"),
               Param("amount", "uint256")>>,
             <<Param("", "bool")>>, "nonpayable")>>

\* A back-fill that does not look at the outputs an entry has.
AlwaysMissing(func) == TRUE

\* !func.outputs || func.outputs.length === 0
OutputsMissing(func) == func.outputs = NoList \/ func.outputs = <<>>

\* FALLBACK_ERC20_ABI.find(item => item.type === "function" &&
\*                                 item.name === func.name): its index, 0 for none
FindFragment(func) ==
  IF \E i \in DOMAIN FALLBACK_ERC20_ABI : FALLBACK_ERC20_ABI[i].name = func.name
  THEN CHOOSE i \in DOMAIN FALLBACK_ERC20_ABI :
         /\ FALLBACK_ERC20_ABI[i].name = func.name
         /\ \A j \in 1..(i - 1) : FALLBACK_ERC20_ABI[j].name # func.name
  ELSE 0

\* !func.inputs || (func.inputs.length === erc20Func.inputs.length &&
\*                  func.inputs.every((input, index) =>
\*                     input.type === erc20Func.inputs[index].type))
inputsMatch(func, erc20Func) ==
  \/ func.inputs = NoList
  \/ /\ Len(func.inputs) = Len(erc20Func.inputs)
     /\ \A i \in 1..Len(func.inputs) : func.inputs[i].type = erc20Func.inputs[i].type

\* The ERC-20 fallback both functions apply to an entry without outputs.
Erc20Fallback(func) ==
  IF FindFragment(func) # 0 /\ inputsMatch(func, FALLBACK_ERC20_ABI[FindFragment(func)])
  THEN [func EXCEPT !.outputs = FALLBACK_ERC20_ABI[FindFragment(func)].outputs,
                    !.stateMutability =
                       FALLBACK_ERC20_ABI[FindFragment(func)].stateMutability]
  ELSE func

\* processABI: what the map callback does to the entry itself
processABIEntry(func) ==
  IF OutputsMissing(func) THEN Erc20Fallback(func) ELSE func

\* What OpenChain may answer for the selector of an entry: an error, no
\* signature, or a signature, with or without a returns part.
OpenChainAnswers ==
  {[kind |-> "error", sig |-> <<>>], [kind |-> "none", sig |-> <<>>],
   [kind |-> "sig", sig |-> SigTransfer], [kind |-> "sig", sig |-> SigOwner],
   [kind |-> "sig", sig |-> <<"get", "(", ")", "(", "uint256", ",", "bool", ")">>]}

\* .replace(/[()]/g, "").split(",").filter(Boolean) on tokens
ReturnTypes(toks) ==
  SelectSeq(SplitComma(SelectSeq(toks, LAMBDA t : t \notin {"(", ")", "returns"})),
            LAMBDA t : t # "")

\* getFunctionFromABI: the outputs read from the first OpenChain signature,
\* the text after its first ")" starting with "returns" or with "("
OpenChainOutputs(func, answer) ==
  IF func.selector = Undef \/ answer.kind # "sig" THEN func
  ELSE LET close == IndexFrom(answer.sig, ")", 1)
           returnPart == IF close = 0 THEN <<>>
                         ELSE SubSeq(answer.sig, close + 1, Len(answer.sig))
       IN IF returnPart # <<>> /\ Head(returnPart) \in {"returns", "("}
          THEN [func EXCEPT
                  !.outputs = [i \in 1..Len(ReturnTypes(returnPart)) |->
                                 Param("output" \o ToString(i - 1),
                                       ReturnTypes(returnPart)[i])],
                  !.stateMutability = "view"]
          ELSE func

\* getFunctionFromABI: what it does to the function it found
getFunctionFromABIEntry(func, answer) ==
  IF OutputsMissing(func)
  THEN IF OutputsMissing(OpenChainOutputs(func, answer))
       THEN Erc20Fallback(OpenChainOutputs(func, answer))
       ELSE OpenChainOutputs(func, answer)
  ELSE func

\* ------------------------------------------------------------------------
\* The outcome of whatsabi.autoload (a third-party library): it asks the
\* verified-source loader first and returns its ABI when that is not empty;
\* otherwise it analyses the bytecode and looks the selectors up itself,
\* leaving an item it cannot resolve without a name; with followProxies it
\* may return the interface, and the address, of the implementation.
\* ------------------------------------------------------------------------

VerifiedAbi ==
  <<[type |-> "function", selector |-> Undef, name |-> "transfer",
     inputs |-> <<[name |-> "to", type |-> "address"],
                  [name |-> "amount", type |-> "uint256"]>>,
     outputs |-> <<[name |-> "", type |-> "bool"]>>,
     stateMutability |-> "nonpayable"]>>

\* An item of the library's own analysis: resolved from a signature, or left
\* as the analysis found it, stripped of the guessed inputs and outputs.
LibraryItem(item, found) ==
  LET bare == [item EXCEPT !.inputs = NoList, !.outputs = NoList] IN
  IF found /\ item.type = "function" /\ KnownSignatures(item.selector) # {}
  THEN [processSignature(bare, CHOOSE sig \in KnownSignatures(item.selector) : TRUE)
          EXCEPT !.outputs = NoList, !.stateMutability = item.stateMutability]
  ELSE bare

LibraryAbi(code, found) ==
  [i \in 1..Len(abiFromBytecode(code)) |-> LibraryItem(abiFromBytecode(code)[i], found)]

\* The selectors of code that autoload's own lookups leave without a match.
LibraryUnmatched(code, found) ==
  {it.selector : it \in {x \in Range(abiFromBytecode(code)) :
      x.type = "function" /\ (~found \/ KnownSignatures(x.selector) = {})}}

AutoloadOutcomes(contractAddress, code) ==
  {[kind |-> "ok", loaderAbi |-> TRUE, abi |-> VerifiedAbi, address |-> t,
    unmatched |-> {}] : t \in {contractAddress, "0xef"}}
  \cup
  {[kind |-> "ok", loaderAbi |-> FALSE, abi |-> LibraryAbi(c, found), address |-> t,
    unmatched |-> LibraryUnmatched(c, found)] :
     found \in BOOLEAN,
     <<c, t>> \in {<<code, contractAddress>>, <<CodeToken, "0xef">>}}
  \cup
  {[kind |-> "throw", loaderAbi |-> FALSE, abi |-> <<>>, address |-> contractAddress,
    unmatched |-> {}]}

\* ------------------------------------------------------------------------
\* The wrapper
\* ------------------------------------------------------------------------

VARIABLES
  currentChainId,   \* this.currentChainId
  abiCache,         \* this.abiCache: cache key -> result, NoEntry where absent
  clientChain,      \* the chain this.publicClient is connected to
  requestedChain,   \* the chain id last handed to setChainId by a caller
  pc,               \* where the parseContract in flight is suspended
  rq,               \* the locals of the parseContract in flight
  last,             \* how the last parseContract ended
  world,            \* the slots of the contract handed to manuallyCheckForProxy
  found,            \* what manuallyCheckForProxy returned for world
  entry,            \* a function entry handed to a step that works entry by entry
  backfilled,       \* what that step (back-fill, enhancement, parsing) made of it
  cachedABIs,       \* db.cachedABIs: the records in the order of their auto-incremented id
  now,              \* Date.now()
  dbCalls,          \* the cacheContractABI calls in flight
  page,             \* the fetchData of the results page in flight, and its last lookup
  cliRun            \* a run of the CLI's extractAbi: its inputs and its outcome

vars == <<currentChainId, abiCache, clientChain, requestedChain, pc, rq, last,
          world, found,
          entry, backfilled,
          cachedABIs, now, dbCalls, page,
          cliRun>>

wrapperVars == <<currentChainId, abiCache, clientChain, requestedChain, pc, rq, last>>
proxyVars == <<world, found>>
abiVars == <<entry, backfilled>>
dbVars == <<cachedABIs, now, dbCalls, page>>
cliVars == <<cliRun>>

\* No caller has handed a chain id to setChainId yet.
NoChain == 0

NoEntry  == [absent |-> TRUE]
NoProxy  == [undefined |-> TRUE]
NoResult == [none |-> TRUE]
NoSelectors == <<Undef>>

\* `${contractAddress.toLowerCase()}-${this.currentChainId}`
CacheKey(contractAddress, chainId) ==
  toLowerCase(contractAddress) \o "-" \o ToString(chainId)

\* The keys parseContract can form.
\* contractAddress.toLowerCase(), the key getCachedABI uses
AddressKey(contractAddress) == toLowerCase(contractAddress)

\* The keys parseContract and getCachedABI can form.
CacheKeys ==
  {CacheKey(a, c) : a \in AddressInputs, c \in Chains}
    \cup {AddressKey(a) : a \in AddressInputs}

\* The operations that go to the network.
NetworkCalls ==
  {"getChainId", "getCode", "getStorageAt", "autoload", "loader",
   "signatureLookup", "4byte"}

\* The test that opens parseContract.
RejectedAddress(contractAddress) ==
  \/ contractAddress = ""
  \/ contractAddress = "0x"
  \/ contractAddress = ZeroAddress

\* A check of the bytecode that lets "0x" through.
NoBytecodeOnlyMissing(code) == code = Undef

\* !code || code === "0x"
NoBytecode(code) == code = Undef \/ code = EmptyCode

\* shouldEnableProxyResolution(chainId)
shouldEnableProxyResolution(chainId) == chainId \notin {ArbitrumSepolia}

\* What getCode may answer for the address of a request.
GetCodeAnswers(contractAddress) ==
  IF toLowerCase(contractAddress) = "0xab" THEN {"error", Undef, EmptyCode} \cup Codes
  ELSE IF isAddress(contractAddress) THEN {"error", Undef, EmptyCode}
  ELSE {"error"}

\* What getCode may answer for an implementation found by the slot probe.
ImplCodeAnswers == {"error", EmptyCode, CodeToken, CodeProxy}

\* The network calls of one run of enhanceAbiWithSignatures.
EnhanceCalls(abi, answers) ==
  {"enhanceAbiWithSignatures"}
    \cup (IF \E i \in 1..Len(abi) : abi[i].type = "function" /\ abi[i].selector # Undef
          THEN {"signatureLookup"} ELSE {})
    \cup (IF \E i \in 1..Len(abi) :
               /\ abi[i].type = "function" /\ abi[i].selector # Undef
               /\ ~(answers[i].lookup.kind = "sigs" /\ Len(answers[i].lookup.sigs) > 0)
          THEN {"4byte"} ELSE {})

\* Neither source returned a signature for the item.
NoSignature(answers) ==
  /\ ~(answers.lookup.kind = "sigs" /\ Len(answers.lookup.sigs) > 0)
  /\ ~(answers.direct.kind = "ok" /\ Len(answers.direct.results) > 0)

\* The selectors of abi for which no source returned a signature.
Unmatched(abi, answers) ==
  {abi[i].selector : i \in {j \in 1..Len(abi) :
      abi[j].type = "function" /\ abi[j].selector # Undef /\ NoSignature(answers[j])}}

NoRequest ==
  [address |-> "", cacheKey |-> "", code |-> "unread", implCode |-> "unread",
   selectors |-> NoSelectors, enhancedAbi |-> <<>>, enhancedImplAbi |-> <<>>,
   slot |-> 0, proxyImplementation |-> Null, calls |-> {}, chainChanged |-> FALSE,
   changedCache |-> FALSE, branch |-> "", unmatched |-> {}, unmatchedImpl |-> {},
   steps |-> <<>>, implAnalysed |-> TRUE, getCachedABI |-> FALSE, computedOn |-> NoChain,
   reads |-> 0]

NoOutcome ==
  [kind |-> "none", result |-> NoResult, hit |-> FALSE, request |-> NoRequest]

\* finalAbi = [...enhancedAbi, ...enhancedImplAbi]
CombineAbi(enhancedAbi, enhancedImplAbi) == enhancedAbi \o enhancedImplAbi

\* The result of the manual branch
ManualResult(finalAbi, implementationAddress, selectors, proxyImplementation) ==
  [abi |-> finalAbi, address |-> implementationAddress, selectors |-> selectors,
   proxy |-> IF proxyImplementation # Null
             THEN [implementation |-> proxyImplementation] ELSE NoProxy,
   computedOn |-> NoChain]

\* The result of the autoload branch: { abi: result.abi, address: result.address }
AutoloadResult(out) ==
  [abi |-> out.abi, address |-> out.address, selectors |-> NoSelectors, proxy |-> NoProxy,
   computedOn |-> NoChain]

\* The result of the fallback taken when autoload throws
FallbackResult(enhancedAbi, contractAddress, selectors) ==
  [abi |-> enhancedAbi, address |-> contractAddress, selectors |-> selectors,
   proxy |-> NoProxy, computedOn |-> NoChain]

\* parseContract throws: nothing is stored, the caller gets the error.
Throw(kind, request) ==
  /\ pc' = "idle"
  /\ rq' = NoRequest
  /\ last' = [kind |-> kind, result |-> NoResult, hit |-> FALSE, request |-> request]

\* The cache after a call returned result: getCachedABI, when it is the
\* caller of parseContract, sets the result under the address alone.
AfterReturn(cache, result, request) ==
  IF request.getCachedABI
  THEN [cache EXCEPT ![AddressKey(request.address)] = result]
  ELSE cache

\* this.abiCache.set(cacheKey, result); return result.  The result carries,
\* for the record, the chain of the client that answered getCode.
StoreAndReturn(result, request) ==
  LET computed == [result EXCEPT !.computedOn = request.computedOn] IN
  /\ abiCache' = AfterReturn([abiCache EXCEPT ![request.cacheKey] = computed],
                             computed, request)
  /\ pc' = "idle"
  /\ rq' = NoRequest
  /\ last' = [kind |-> "ok", result |-> computed, hit |-> FALSE,
              request |-> [request EXCEPT !.changedCache = TRUE,
                                          !.steps = @ \o <<"Cache">>]]

\* this.abiCache.clear()
ClearedCache == [k \in CacheKeys |-> NoEntry]

\* A setChainId that clears the cache whatever chain id it is given.
setChainIdAlwaysClears(chainId) == [chainId |-> chainId, cache |-> ClearedCache]

\* setChainId(chainId): the chain id and the cache it leaves
setChainId(chainId) ==
  IF currentChainId # chainId
  THEN [chainId |-> chainId, cache |-> ClearedCache]
  ELSE [chainId |-> currentChainId, cache |-> abiCache]

\* A wrapper that runs its bytecode fallback whatever autoload returned.
AutoloadDiscarded(out) == TRUE

\* The catch of the try around autoload: the fallback runs when it threw.
AutoloadFailed(out) == out.kind = "throw"

\* ---- parseContract, from its entry to its first await (getChainId) ----
StartParse(contractAddress, byGetCachedABI) ==
  /\ pc = "idle"
  /\ IF RejectedAddress(contractAddress)
     THEN Throw("InvalidAddress", [NoRequest EXCEPT !.address = contractAddress,
                                                    !.getCachedABI = byGetCachedABI])
     ELSE /\ pc' = "chainId"
          /\ rq' = [NoRequest EXCEPT !.address = contractAddress,
                                     !.getCachedABI = byGetCachedABI,
                                     !.calls = {"getChainId"}]
          /\ last' = NoOutcome
  /\ UNCHANGED <<currentChainId, abiCache, clientChain, requestedChain, proxyVars, abiVars, dbVars, cliVars>>

ParseStart(contractAddress) == StartParse(contractAddress, FALSE)

\* ---- getCachedABI(contractAddress): the entry under the address alone is
\* ---- returned, or parseContract is called
GetCachedABI(contractAddress) ==
  IF abiCache[AddressKey(contractAddress)] # NoEntry
  THEN /\ pc = "idle"
       /\ last' = [kind |-> "ok", result |-> abiCache[AddressKey(contractAddress)],
                   hit |-> TRUE,
                   request |-> [NoRequest EXCEPT !.address = contractAddress,
                                                 !.cacheKey = AddressKey(contractAddress),
                                                 !.getCachedABI = TRUE]]
       /\ UNCHANGED <<currentChainId, abiCache, clientChain, requestedChain, pc, rq,
                      proxyVars, abiVars, dbVars, cliVars>>
  ELSE StartParse(contractAddress, TRUE)

\* ---- from the answer of getChainId to the return of the cached result or
\* ---- the await of getCode
ParseChainId(ok) ==
  /\ pc = "chainId"
  /\ IF ~ok
     THEN /\ Throw("raw", rq)
          /\ UNCHANGED <<currentChainId, abiCache>>
     ELSE LET set == IF clientChain # currentChainId
                     THEN setChainId(clientChain)
                     ELSE [chainId |-> currentChainId, cache |-> abiCache]
              cacheKey == CacheKey(rq.address, set.chainId)
              request  == [rq EXCEPT !.cacheKey = cacheKey,
                                     !.chainChanged = clientChain # currentChainId,
                                     !.changedCache = set.cache # abiCache]
          IN /\ currentChainId' = set.chainId
             /\ abiCache' = IF set.cache[cacheKey] # NoEntry
                            THEN AfterReturn(set.cache, set.cache[cacheKey], request)
                            ELSE set.cache
             /\ IF set.cache[cacheKey] # NoEntry
                THEN /\ pc' = "idle"
                     /\ rq' = NoRequest
                     /\ last' = [kind |-> "ok", result |-> set.cache[cacheKey],
                                 hit |-> TRUE, request |-> request]
                ELSE /\ pc' = "code"
                     /\ rq' = [request EXCEPT !.calls = @ \cup {"getCode"}]
                     /\ last' = last
  /\ UNCHANGED <<clientChain, requestedChain, proxyVars, abiVars, dbVars, cliVars>>

\* ---- from the answer of getCode to the await of the analysis
ParseCode(code) ==
  /\ pc = "code"
  /\ code \in GetCodeAnswers(rq.address)
  /\ IF code = "error" THEN Throw("raw", [rq EXCEPT !.code = code])
     ELSE IF NoBytecode(code) THEN Throw("NoContract", [rq EXCEPT !.code = code])
     ELSE IF ~shouldEnableProxyResolution(currentChainId)
     THEN /\ pc' = "enhance"
          /\ rq' = [rq EXCEPT !.code = code, !.branch = "manual",
                              !.computedOn = clientChain,
                              !.selectors = selectorsFromBytecode(code),
                              !.steps = @ \o <<"BytecodeFallback">>,
                              !.calls = @ \cup {"selectorsFromBytecode", "abiFromBytecode"}]
          /\ last' = last
     ELSE /\ pc' = "autoload"
          /\ rq' = [rq EXCEPT !.code = code, !.branch = "standard",
                              !.computedOn = clientChain,
                              !.steps = @ \o <<"VerifiedLookup">>,
                              !.calls = @ \cup {"autoload"}]
          /\ last' = last
  /\ UNCHANGED <<currentChainId, abiCache, clientChain, requestedChain, proxyVars, abiVars, dbVars, cliVars>>

\* ---- the manual branch: enhanceAbiWithSignatures(baseAbi, signatureLookup)
ParseEnhance ==
  /\ pc = "enhance"
  /\ \E answers \in AbiAnswers(abiFromBytecode(rq.code)) :
       rq' = [rq EXCEPT
                !.enhancedAbi = enhanceAbiWithSignatures(abiFromBytecode(rq.code), answers),
                !.calls = @ \cup EnhanceCalls(abiFromBytecode(rq.code), answers)
                            \cup {"getStorageAt"},
                !.unmatched = Unmatched(abiFromBytecode(rq.code), answers),
                !.steps = @ \o <<"ProxyCheck">>,
                !.slot = 1]
  /\ pc' = "proxy"
  /\ UNCHANGED <<currentChainId, abiCache, clientChain, requestedChain, last, proxyVars, abiVars, dbVars, cliVars>>

\* A loop that reads the same slot again.
SameSlot(slot) == slot

\* for (const slot of commonImplementationSlots): the slot read next
NextSlot(slot) == slot + 1

\* ---- the manual branch: manuallyCheckForProxy reads its next slot; when
\* ---- it returns null the result is stored and returned
ParseProxy(view) ==
  /\ pc = "proxy"
  /\ IF ProbeSlot(view) # Null
     THEN /\ pc' = "impl"
          /\ rq' = [rq EXCEPT !.proxyImplementation = ProbeSlot(view),
                              !.reads = @ + 1,
                              !.calls = @ \cup {"getCode"}]
          /\ UNCHANGED <<abiCache, last>>
     ELSE IF rq.slot < Len(commonImplementationSlots)
     THEN /\ rq' = [rq EXCEPT !.slot = NextSlot(rq.slot), !.reads = @ + 1]
          /\ UNCHANGED <<pc, abiCache, last>>
     ELSE StoreAndReturn(
            ManualResult(rq.enhancedAbi, rq.address, rq.selectors, Null),
            [rq EXCEPT !.reads = @ + 1])
  /\ UNCHANGED <<currentChainId, clientChain, requestedChain, proxyVars, abiVars, dbVars, cliVars>>

\* A parseContract without the try/catch around the implementation's
\* analysis: what throws there rejects the call.
ImplErrorRethrown(implCode) == FALSE

\* try { ... } catch (error) { /* Continue with the proxy ABI only */ }
ImplErrorCaught(implCode) == TRUE

\* ---- the manual branch: the implementation's code arrives; analysed says
\* ---- whether the analysis of a present code goes through or throws
ParseImpl(implCode, analysed) ==
  /\ pc = "impl"
  /\ implCode \in ImplCodeAnswers
  /\ analysed \/ (implCode # "error" /\ ~NoBytecode(implCode))
  /\ IF (implCode = "error" \/ ~analysed) /\ ~ImplErrorCaught(implCode)
     THEN /\ Throw("raw", [rq EXCEPT !.implCode = implCode, !.implAnalysed = analysed])
          /\ UNCHANGED abiCache
     ELSE IF implCode = "error" \/ NoBytecode(implCode) \/ ~analysed
     THEN StoreAndReturn(
            ManualResult(rq.enhancedAbi, rq.proxyImplementation, rq.selectors,
                         rq.proxyImplementation),
            [rq EXCEPT !.implCode = implCode, !.implAnalysed = analysed])
     ELSE /\ pc' = "implEnhance"
          /\ rq' = [rq EXCEPT !.implCode = implCode,
                              !.calls = @ \cup {"selectorsFromBytecode", "abiFromBytecode"}]
          /\ UNCHANGED <<abiCache, last>>
  /\ UNCHANGED <<currentChainId, clientChain, requestedChain, proxyVars, abiVars, dbVars, cliVars>>

\* ---- the manual branch: the implementation's ABI is enhanced and merged
ParseImplEnhance ==
  /\ pc = "implEnhance"
  /\ \E answers \in AbiAnswers(abiFromBytecode(rq.implCode)) :
       LET enhancedImplAbi ==
             enhanceAbiWithSignatures(abiFromBytecode(rq.implCode), answers)
           request ==
             [rq EXCEPT !.enhancedImplAbi = enhancedImplAbi,
                        !.unmatchedImpl = Unmatched(abiFromBytecode(rq.implCode), answers),
                        !.calls = @ \cup EnhanceCalls(abiFromBytecode(rq.implCode), answers)]
       IN StoreAndReturn(
            ManualResult(CombineAbi(rq.enhancedAbi, enhancedImplAbi),
                         rq.proxyImplementation, rq.selectors, rq.proxyImplementation),
            request)
  /\ UNCHANGED <<currentChainId, clientChain, requestedChain, proxyVars, abiVars, dbVars, cliVars>>

\* ---- the standard branch: whatsabi.autoload settles
ParseAutoload ==
  /\ pc = "autoload"
  /\ \E out \in AutoloadOutcomes(rq.address, rq.code) :
       LET library ==
             {"loader"}
               \cup (IF out.loaderAbi /\ out.address = rq.address
                     THEN {"loaderAbi"} ELSE {})
               \cup (IF out.kind = "ok" /\ ~out.loaderAbi
                     THEN {"signatureLookup"} ELSE {})
       IN
       IF AutoloadFailed(out)
       THEN /\ pc' = "fallback"
            /\ rq' = [rq EXCEPT !.selectors = selectorsFromBytecode(rq.code),
                                !.steps = @ \o <<"BytecodeFallback">>,
                                !.calls = @ \cup library
                                  \cup {"selectorsFromBytecode", "abiFromBytecode"}]
            /\ UNCHANGED <<abiCache, last>>
       ELSE StoreAndReturn(AutoloadResult(out),
                           [rq EXCEPT !.calls = @ \cup library,
                                      !.unmatched = out.unmatched])
  /\ UNCHANGED <<currentChainId, clientChain, requestedChain, proxyVars, abiVars, dbVars, cliVars>>

\* ---- the standard branch: the fallback after autoload threw
ParseFallback ==
  /\ pc = "fallback"
  /\ \E answers \in AbiAnswers(abiFromBytecode(rq.code)) :
       LET enhancedAbi == enhanceAbiWithSignatures(abiFromBytecode(rq.code), answers)
           request ==
             [rq EXCEPT !.enhancedAbi = enhancedAbi,
                        !.unmatched = Unmatched(abiFromBytecode(rq.code), answers),
                        !.calls = @ \cup EnhanceCalls(abiFromBytecode(rq.code), answers)]
       IN StoreAndReturn(FallbackResult(enhancedAbi, rq.address, rq.selectors), request)
  /\ UNCHANGED <<currentChainId, clientChain, requestedChain, proxyVars, abiVars, dbVars, cliVars>>

\* processABI(abi) as far as it writes to abi: the entries of type function
\* go through the map callback, which assigns to their fields.
processABI(abi) ==
  [i \in 1..Len(abi) |->
     IF abi[i].type = "function" THEN processABIEntry(abi[i]) ELSE abi[i]]

\* ---- getContractFunctions, from the return of its parseContract to its
\* ---- own return: processABI runs on the abi array of the result, which is
\* ---- the array of the cached entry.  Its caller passed isAddress.
GetContractFunctions ==
  /\ pc = "idle"
  /\ last.kind = "ok"
  /\ isAddress(last.request.address)
  /\ "OutputBackfill" \notin Range(last.request.steps)
  /\ abiCache[last.request.cacheKey] = last.result
  /\ abiCache' = [abiCache EXCEPT ![last.request.cacheKey].abi = processABI(@)]
  /\ last' = [last EXCEPT !.result.abi = processABI(@),
                          !.request.steps = @ \o <<"OutputBackfill">>]
  /\ UNCHANGED <<currentChainId, clientChain, requestedChain, pc, rq, proxyVars, abiVars, dbVars, cliVars>>

\* ---- setChainId called from outside (getWhatsABIClientById)
setChainIdCall(chainId) ==
  /\ currentChainId' = setChainId(chainId).chainId
  /\ abiCache' = setChainId(chainId).cache
  /\ requestedChain' = chainId
  /\ UNCHANGED <<clientChain, pc, rq, last, proxyVars, abiVars, dbVars, cliVars>>

\* ---- setChainId called between two calls of parseContract
SetChainId(chainId) == pc = "idle" /\ setChainIdCall(chainId)

\* ---- clearCache()
ClearCache ==
  /\ pc = "idle"
  /\ abiCache' = ClearedCache
  /\ UNCHANGED <<currentChainId, clientChain, requestedChain, pc, rq, last, proxyVars, abiVars, dbVars, cliVars>>

\* ---- updatePublicClient(newPublicClient): the client is replaced at once.
\* ---- Its chain id is asked for without being awaited; the .then that
\* ---- follows, if the answer differs from the wrapper's chain id, is a
\* ---- setChainId step, which SetChainId covers.
updatePublicClientCall(chainId) ==
  /\ clientChain' = chainId
  /\ UNCHANGED <<currentChainId, abiCache, requestedChain, pc, rq, last, proxyVars, abiVars, dbVars, cliVars>>

\* ---- updatePublicClient called between two calls of parseContract
UpdatePublicClient(chainId) == pc = "idle" /\ updatePublicClientCall(chainId)

\* ------------------------------------------------------------------------
\* The proxy probe on its own: a contract's slots, then the probe's answer.
\* ------------------------------------------------------------------------

NotProbed == [impl |-> Undef, probed |-> <<>>]

\* A contract with nothing in any slot.
BlankWorld == [s \in Range(WellKnownSlots) |-> [storage |-> ZeroWord, code |-> EmptyCode]]

\* The selector lists the probe may be handed.
ProbeSelectors == {<<>>, <<SelTransfer>>, <<SelUpgradeTo, SelTransfer>>}

Probe(selectors) ==
  /\ found = NotProbed
  /\ found' = [impl |-> manuallyCheckForProxy(world, selectors).impl,
               probed |-> manuallyCheckForProxy(world, selectors).probed,
               selectors |-> selectors]
  /\ UNCHANGED <<world, wrapperVars, abiVars, dbVars, cliVars>>

\* ------------------------------------------------------------------------
\* The output back-fill on its own: an entry, then what processABI or
\* getFunctionFromABI makes of it.
\* ------------------------------------------------------------------------

NotFilled == [via |-> "none"]

BlankEntry == FunctionItem(SelUnknown, NoList, NoList, Undef)

EntryNames == {Undef, "transfer", "balanceOf", "func_a9059cbb", "mint"}

EntryInputs ==
  {NoList, <<>>, <<Param("param0", "address")>>,
   <<Param("param0", "address"), Param("param1", "uint256")>>,
   <<Param("param0", "uint256"), Param("param1", "address")>>}

EntryOutputs == {NoList, <<>>, <<Param("output0", "uint8")>>}

EntryMutabilities == {Undef, "payable", "view"}

\* The function entries handed to the back-fill.
Entries ==
  {[type |-> "function", selector |-> sel, name |-> name, inputs |-> ins,
    outputs |-> outs, stateMutability |-> mut] :
     sel \in {Undef, SelTransfer}, name \in EntryNames, ins \in EntryInputs,
     outs \in EntryOutputs, mut \in EntryMutabilities}

ProcessABI ==
  /\ backfilled = NotFilled
  /\ backfilled' = [via |-> "processABI", item |-> processABIEntry(entry),
                    answer |-> [kind |-> "none", sig |-> <<>>]]
  /\ UNCHANGED <<entry, wrapperVars, proxyVars, dbVars, cliVars>>

GetFunctionFromABI(answer) ==
  /\ backfilled = NotFilled
  /\ backfilled' = [via |-> "getFunctionFromABI",
                    item |-> getFunctionFromABIEntry(entry, answer),
                    answer |-> answer]
  /\ UNCHANGED <<entry, wrapperVars, proxyVars, dbVars, cliVars>>

\* ------------------------------------------------------------------------
\* Signature resolution on its own: an entry as abiFromBytecode leaves it,
\* then what enhanceAbiWithSignatures makes of it for some answers of the
\* sources, or what processSignature makes of it for some signature text.
\* A source answers with whatever its database holds for the selector asked:
\* nothing checks the answer on the way.
\* ------------------------------------------------------------------------

BaseEntries ==
  {FunctionItem(sel, ins, outs, mut) :
     sel \in Selectors, ins \in {NoList, GuessedBytes}, outs \in {NoList, GuessedBytes},
     mut \in {Undef, "payable", "nonpayable"}}

SourceSignatures == {SigUpgradeTo, SigTransfer}

SourceAnswers ==
  {[lookup |-> a, direct |-> b] :
     a \in {[kind |-> "timeout"], [kind |-> "sigs", sigs |-> <<>>]}
             \cup {[kind |-> "sigs", sigs |-> <<sig>>] : sig \in SourceSignatures},
     b \in {[kind |-> "fetchError"], [kind |-> "notOk"], [kind |-> "ok", results |-> <<>>]}
             \cup {[kind |-> "ok", results |-> <<[id |-> 7, text_signature |-> sig]>>] :
                     sig \in SourceSignatures}}

SignatureTexts == {SigUpgradeTo, SigTransfer, SigOwner, SigNoParen, SigNested}

EnhanceEntry(answers) ==
  /\ backfilled = NotFilled
  /\ backfilled' = [via |-> "enhanceAbiWithSignatures",
                    item |-> enhanceAbiWithSignatures(<<entry>>, <<answers>>)[1],
                    consulted |-> SourcesConsulted(entry, answers),
                    answers |-> answers]
  /\ UNCHANGED <<entry, wrapperVars, proxyVars, dbVars, cliVars>>

ProcessSignature(signature) ==
  /\ backfilled = NotFilled
  /\ backfilled' = [via |-> "processSignature",
                    item |-> processSignature(entry, signature),
                    signature |-> signature]
  /\ UNCHANGED <<entry, wrapperVars, proxyVars, dbVars, cliVars>>

\* ------------------------------------------------------------------------
\* The browser-side cache (lib/db): the table cachedABIs of the Dexie
\* database, indexed but not unique on [address+chainId], written by
\* cacheContractABI and read by getCachedContractABI; and the load of the
\* results page (fetchData), which reads it, fetches from the API on a miss
\* and writes what it fetched without awaiting the write.  Time is counted in
\* ticks; the freshness window of 7 days is SevenDays ticks.
\* ------------------------------------------------------------------------

MaxNow == 2
MaxRecords == 2
MaxDbCalls == 2
SevenDays == 1

DbAddresses == {"0xAB", "0xab"}
DbChains == {DefaultChainId}
FunctionLists == {<<>>, <<"transfer">>}

\* The formatted ABI the API returns for a list of functions.
FormattedABI(functions) == IF functions = <<>> THEN "[]" ELSE "[{transfer}]"

\* JSON.stringify(functions)
Stringify(functions) == IF functions = <<>> THEN "[]" ELSE "[\"" \o functions[1] \o "\"]"

\* JSON.parse(text) of a stored functions string
ParseFunctions(text) == CHOOSE functions \in FunctionLists : Stringify(functions) = text

\* null as the answer of getCachedContractABI
NoData == [null |-> TRUE]

\* .where("[address+chainId]").equals([normalizedAddress, chainId]).first():
\* the id of the first record of the key, 0 when there is none
FirstRecord(table, normalizedAddress, chainId) ==
  LET ids == {i \in 1..Len(table) :
                table[i].address = normalizedAddress /\ table[i].chainId = chainId}
  IN IF ids = {} THEN 0 ELSE CHOOSE i \in ids : \A j \in ids : i <= j

\* cachedEntry.timestamp > oneWeekAgo || cachedEntry.verified
Servable(cachedEntry) ==
  cachedEntry.timestamp > now - SevenDays \/ cachedEntry.verified

\* getCachedContractABI(address, chainId); readOk says whether the table
\* answered.  The catch block turns a failed read into null.
getCachedContractABI(address, chainId, readOk) ==
  LET id == FirstRecord(cachedABIs, toLowerCase(address), chainId) IN
  IF ~readOk THEN NoData
  ELSE IF id # 0
  THEN IF Servable(cachedABIs[id])
       THEN [abi |-> cachedABIs[id].abi,
             functions |-> ParseFunctions(cachedABIs[id].functions)]
       ELSE NoData
  ELSE NoData

IdleCall == [pc |-> "idle"]
IdlePage == [pc |-> "idle"]

\* The call slot a new call of cacheContractABI takes, 0 when all are taken.
FreeCall ==
  IF \E c \in 1..MaxDbCalls : dbCalls[c].pc = "idle"
  THEN CHOOSE c \in 1..MaxDbCalls :
         dbCalls[c].pc = "idle" /\ \A d \in 1..(c - 1) : dbCalls[d].pc # "idle"
  ELSE 0

\* The call of cacheContractABI up to its first await: the read is issued.
StartCall(c, address, chainId, abi, functions, verified, by) ==
  dbCalls' = [dbCalls EXCEPT ![c] =
                [pc |-> "read", normalizedAddress |-> toLowerCase(address),
                 chainId |-> chainId, abi |-> abi,
                 functionsString |-> Stringify(functions), verified |-> verified,
                 by |-> by, existingRecord |-> 0]]

\* cacheContractABI called by some caller of the module
CacheContractABI(address, chainId, abi, functions, verified) ==
  /\ FreeCall # 0
  /\ StartCall(FreeCall, address, chainId, abi, functions, verified, "caller")
  /\ UNCHANGED <<cachedABIs, now, page, wrapperVars, proxyVars, abiVars, cliVars>>

\* cacheContractABI: the read of the existing record answers or fails
CacheRead(c, ok) ==
  /\ dbCalls[c].pc = "read"
  /\ dbCalls' = [dbCalls EXCEPT ![c] =
        IF ok
        THEN [@ EXCEPT !.pc = "write",
                       !.existingRecord =
                          FirstRecord(cachedABIs, dbCalls[c].normalizedAddress,
                                      dbCalls[c].chainId)]
        ELSE IdleCall]
  /\ UNCHANGED <<cachedABIs, now, page, wrapperVars, proxyVars, abiVars, cliVars>>

\* cacheContractABI: the update of the existing record, or the add
CacheWrite(c, ok) ==
  /\ dbCalls[c].pc = "write"
  /\ LET call == dbCalls[c] IN
     /\ call.existingRecord = 0 => Len(cachedABIs) < MaxRecords
     /\ cachedABIs' =
          IF ~ok THEN cachedABIs
          ELSE IF call.existingRecord # 0
          THEN [cachedABIs EXCEPT ![call.existingRecord] =
                  [@ EXCEPT !.abi = call.abi,
                            !.functions = call.functionsString,
                            !.timestamp = now,
                            !.verified = call.verified \/ @]]
          ELSE Append(cachedABIs,
                      [address |-> call.normalizedAddress, chainId |-> call.chainId,
                       abi |-> call.abi, functions |-> call.functionsString,
                       timestamp |-> now, verified |-> call.verified])
  /\ dbCalls' = [dbCalls EXCEPT ![c] = IdleCall]
  /\ UNCHANGED <<now, page, wrapperVars, proxyVars, abiVars, cliVars>>

\* fetchData: the lookup in the cache; a hit ends the load
LoadStart(contractAddress, chainId, readOk) ==
  /\ page.pc = "idle"
  /\ LET cachedData == getCachedContractABI(contractAddress, chainId, readOk)
     IN page' = [pc |-> IF cachedData # NoData THEN "idle" ELSE "fetching",
                 contractAddress |-> contractAddress, chainId |-> chainId,
                 readOk |-> readOk, cachedData |-> cachedData]
  /\ UNCHANGED <<cachedABIs, now, dbCalls, wrapperVars, proxyVars, abiVars, cliVars>>

\* fetchData after a miss: the two API requests answer; when both succeed
\* cacheContractABI is called with what they returned and not awaited
LoadFetched(ok, functions) ==
  /\ page.pc = "fetching"
  /\ page' = [page EXCEPT !.pc = "idle"]
  /\ IF ok
     THEN /\ FreeCall # 0
          /\ StartCall(FreeCall, page.contractAddress, page.chainId,
                       FormattedABI(functions), functions, FALSE, "load")
     ELSE UNCHANGED dbCalls
  /\ UNCHANGED <<cachedABIs, now, wrapperVars, proxyVars, abiVars, cliVars>>

\* Time passes.
Tick ==
  /\ now < MaxNow
  /\ now' = now + 1
  /\ UNCHANGED <<cachedABIs, dbCalls, page, wrapperVars, proxyVars, abiVars, cliVars>>

DbAtRest ==
  /\ cachedABIs = <<>>
  /\ now = 0
  /\ dbCalls = [c \in 1..MaxDbCalls |-> IdleCall]
  /\ page = IdlePage

\* ------------------------------------------------------------------------
\* The command-line tool (packages/cli): extractAbi(address, rpcUrl, chainId)
\* reads the bytecode, tries the library's autoload and falls back to the
\* analysis of the bytecode.  It resolves no signatures.
\* ------------------------------------------------------------------------

NoCliRun == [ran |-> FALSE]

\* processAbiForOutput(abi): the fields of each item that are copied
processAbiForOutput(abi) ==
  [i \in 1..Len(abi) |->
     [type |-> abi[i].type, name |-> abi[i].name, inputs |-> abi[i].inputs,
      outputs |-> abi[i].outputs, stateMutability |-> abi[i].stateMutability]]

RECURSIVE JoinTypes(_)
\* inputs.map((input) => input.type).join(",")
JoinTypes(inputs) ==
  IF inputs = <<>> THEN ""
  ELSE IF Len(inputs) = 1 THEN inputs[1].type
  ELSE inputs[1].type \o "," \o JoinTypes(Tail(inputs))

\* getFunctionSignature(item) of the CLI: name(types), "" without a name
CliSignature(item) ==
  IF item.name = Undef \/ item.name = "" THEN ""
  ELSE item.name \o "(" \o JoinTypes(OrEmpty(item.inputs)) \o ")"

\* extractFunctionsFromAbi(abi)
extractFunctionsFromAbi(abi) ==
  LET fs == SelectSeq(abi, LAMBDA item : item.type = "function") IN
  [i \in 1..Len(fs) |->
     [name |-> fs[i].name, signature |-> CliSignature(fs[i]),
      inputs |-> OrEmpty(fs[i].inputs), outputs |-> OrEmpty(fs[i].outputs),
      stateMutability |-> OrElse(fs[i].stateMutability, "nonpayable")]]

\* extractAbi given what getBytecode and autoload answer
extractAbi(bytecode, autoload) ==
  IF bytecode = "error" THEN [kind |-> "raw"]
  ELSE IF NoBytecode(bytecode) THEN [kind |-> "NoBytecode"]
  ELSE IF autoload.kind = "ok" /\ Len(autoload.abi) > 0
  THEN [kind |-> "ok", abi |-> processAbiForOutput(autoload.abi),
        functions |-> extractFunctionsFromAbi(processAbiForOutput(autoload.abi)),
        source |-> "block-explorer"]
  ELSE IF Len(selectorsFromBytecode(bytecode)) = 0 THEN [kind |-> "NoSelectors"]
  ELSE [kind |-> "ok", abi |-> processAbiForOutput(abiFromBytecode(bytecode)),
        functions |-> extractFunctionsFromAbi(processAbiForOutput(abiFromBytecode(bytecode))),
        source |-> "bytecode-analysis"]

CliAddresses == {"0xAB", "0xab"}

\* What getBytecode may answer.
GetBytecodeAnswers == {"error", Undef, EmptyCode} \cup Codes

\* The runs of the CLI that have not started: address, chain id, and what
\* the node and the library will answer.
CliRuns ==
  UNION {{[ran |-> FALSE, address |-> a, chainId |-> c, bytecode |-> b, autoload |-> out] :
            out \in AutoloadOutcomes(a, IF b \in Codes THEN b ELSE CodeOpaque)} :
         a \in CliAddresses, c \in Chains, b \in GetBytecodeAnswers}

ExtractAbi ==
  /\ ~cliRun.ran
  /\ cliRun' = [cliRun EXCEPT !.ran = TRUE]
                 @@ [outcome |-> extractAbi(cliRun.bytecode, cliRun.autoload)]
  /\ UNCHANGED <<wrapperVars, proxyVars, abiVars, dbVars>>

\* ------------------------------------------------------------------------
\* Specifications.  In Spec the callers of the wrapper make one call at a
\* time: setChainId, clearCache and updatePublicClient happen between two
\* calls of parseContract, not while one is suspended.
\* ------------------------------------------------------------------------

Init ==
  /\ currentChainId \in Chains
  /\ clientChain \in Chains
  /\ requestedChain = NoChain
  /\ abiCache = ClearedCache
  /\ pc = "idle"
  /\ rq = NoRequest
  /\ last = NoOutcome
  /\ world = BlankWorld
  /\ found = NotProbed
  /\ entry = BlankEntry
  /\ backfilled = NotFilled
  /\ DbAtRest
  /\ cliRun = NoCliRun

Next ==
  \/ \E a \in AddressInputs : ParseStart(a)
  \/ \E ok \in BOOLEAN : ParseChainId(ok)
  \/ \E code \in {"error", Undef, EmptyCode} \cup Codes : ParseCode(code)
  \/ ParseEnhance
  \/ \E view \in SlotViews : ParseProxy(view)
  \/ \E code \in ImplCodeAnswers, analysed \in BOOLEAN : ParseImpl(code, analysed)
  \/ ParseImplEnhance
  \/ ParseAutoload
  \/ ParseFallback
  \/ GetContractFunctions
  \/ \E c \in Chains : SetChainId(c)
  \/ ClearCache
  \/ \E c \in Chains : UpdatePublicClient(c)

Spec == Init /\ [][Next]_vars

InitProxy ==
  /\ currentChainId = DefaultChainId
  /\ clientChain = DefaultChainId
  /\ requestedChain = NoChain
  /\ abiCache = ClearedCache
  /\ pc = "idle"
  /\ rq = NoRequest
  /\ last = NoOutcome
  /\ world \in SlotWorlds
  /\ found = NotProbed
  /\ entry = BlankEntry
  /\ backfilled = NotFilled
  /\ DbAtRest
  /\ cliRun = NoCliRun

NextProxy == \E selectors \in ProbeSelectors : Probe(selectors)

SpecProxy == InitProxy /\ [][NextProxy]_vars

InitBackfill ==
  /\ currentChainId = DefaultChainId
  /\ clientChain = DefaultChainId
  /\ requestedChain = NoChain
  /\ abiCache = ClearedCache
  /\ pc = "idle"
  /\ rq = NoRequest
  /\ last = NoOutcome
  /\ world = BlankWorld
  /\ found = NotProbed
  /\ entry \in Entries
  /\ backfilled = NotFilled
  /\ DbAtRest
  /\ cliRun = NoCliRun

NextBackfill ==
  \/ ProcessABI
  \/ \E answer \in OpenChainAnswers : GetFunctionFromABI(answer)

SpecBackfill == InitBackfill /\ [][NextBackfill]_vars

InitSignature ==
  /\ currentChainId = DefaultChainId
  /\ clientChain = DefaultChainId
  /\ requestedChain = NoChain
  /\ abiCache = ClearedCache
  /\ pc = "idle"
  /\ rq = NoRequest
  /\ last = NoOutcome
  /\ world = BlankWorld
  /\ found = NotProbed
  /\ entry \in BaseEntries
  /\ backfilled = NotFilled
  /\ DbAtRest
  /\ cliRun = NoCliRun

NextSignature ==
  \/ \E answers \in SourceAnswers : EnhanceEntry(answers)
  \/ \E signature \in SignatureTexts : ProcessSignature(signature)

SpecSignature == InitSignature /\ [][NextSignature]_vars

InitDb ==
  /\ currentChainId = DefaultChainId
  /\ clientChain = DefaultChainId
  /\ requestedChain = NoChain
  /\ abiCache = ClearedCache
  /\ pc = "idle"
  /\ rq = NoRequest
  /\ last = NoOutcome
  /\ world = BlankWorld
  /\ found = NotProbed
  /\ entry = BlankEntry
  /\ backfilled = NotFilled
  /\ DbAtRest
  /\ cliRun = NoCliRun

NextDb ==
  \/ \E address \in DbAddresses, chainId \in DbChains,
         functions \in FunctionLists, verified \in BOOLEAN :
        CacheContractABI(address, chainId, FormattedABI(functions), functions, verified)
  \/ \E c \in 1..MaxDbCalls, ok \in BOOLEAN : CacheRead(c, ok)
  \/ \E c \in 1..MaxDbCalls, ok \in BOOLEAN : CacheWrite(c, ok)
  \/ \E contractAddress \in DbAddresses, chainId \in DbChains, readOk \in BOOLEAN :
        LoadStart(contractAddress, chainId, readOk)
  \/ \E ok \in BOOLEAN, functions \in FunctionLists : LoadFetched(ok, functions)
  \/ Tick

SpecDb == InitDb /\ [][NextDb]_vars

InitCli ==
  /\ currentChainId = DefaultChainId
  /\ clientChain = DefaultChainId
  /\ requestedChain = NoChain
  /\ abiCache = ClearedCache
  /\ pc = "idle"
  /\ rq = NoRequest
  /\ last = NoOutcome
  /\ world = BlankWorld
  /\ found = NotProbed
  /\ entry = BlankEntry
  /\ backfilled = NotFilled
  /\ DbAtRest
  /\ cliRun \in CliRuns

NextCli == ExtractAbi

SpecCli == InitCli /\ [][NextCli]_vars

\* In SpecInterleaved setChainId and updatePublicClient are also called
\* while a parseContract is suspended at one of its awaits, and the caller
\* goes through getCachedABI or straight to parseContract.  The contracts
\* asked for are no proxies and show no selector in their bytecode.
InterleavedAddresses == {"0xAB", "0xab"}

\* Slots that hold no implementation.
PlainSlotViews == {view \in SlotViews : ProbeSlot(view) = Null}

NextInterleaved ==
  \/ \E a \in InterleavedAddresses : ParseStart(a)
  \/ \E a \in InterleavedAddresses : GetCachedABI(a)
  \/ \E ok \in BOOLEAN : ParseChainId(ok)
  \/ \E code \in {"error", EmptyCode, CodeOpaque} : ParseCode(code)
  \/ ParseEnhance
  \/ \E view \in PlainSlotViews : ParseProxy(view)
  \/ ParseAutoload
  \/ ParseFallback
  \/ \E c \in Chains : setChainIdCall(c)
  \/ \E c \in Chains : updatePublicClientCall(c)

SpecInterleaved == Init /\ [][NextInterleaved]_vars

\* ------------------------------------------------------------------------
\* Claims
\* ------------------------------------------------------------------------

\* The request in flight and the request that ended last.
Requests == {rq, last.request}

BytecodePath ==
  {"selectorsFromBytecode", "abiFromBytecode", "enhanceAbiWithSignatures",
   "signatureLookup", "4byte"}

\* C1: whenever the verified-source loader returned a non-empty ABI for the
\* requested address, the request runs neither the selector extraction
\* (selectorsFromBytecode, abiFromBytecode) nor any signature resolution.
C1_VerifiedShortCircuit ==
  \A r \in Requests : "loaderAbi" \in r.calls => r.calls \cap BytecodePath = {}

C1_Witness ==
  /\ last.kind = "ok"
  /\ last.request.branch = "standard"
  /\ "loaderAbi" \in last.request.calls
  /\ last.result.abi = VerifiedAbi

\* C2: a call answered from the cache (a second parseContract of the same
\* address, the chain id unchanged, the cache not cleared) issues no network
\* request at all.
C2_CachedCallIssuesNoNetworkRequest ==
  last.hit => last.request.calls \cap NetworkCalls = {}

\* C3: an address string that is not a well-formed address is rejected with
\* the invalid-address error, and no network call has been made for it.
C3_MalformedRejectedBeforeNetwork ==
  /\ pc # "idle" => isAddress(rq.address)
  /\ (last.kind # "none" /\ ~isAddress(last.request.address)) =>
        (last.kind = "InvalidAddress" /\ last.request.calls \cap NetworkCalls = {})

\* C4 as stated: when the bytecode read answers empty or 0x, parseContract
\* fails with the no-contract error, gives no result, and has left the cache
\* exactly as it was.
C4_NoContractLeavesCacheAsItWas ==
  last.request.code \in {Undef, EmptyCode} =>
     /\ last.kind = "NoContract"
     /\ last.result = NoResult
     /\ ~last.request.changedCache

\* C4 as amended: when the bytecode read answers empty or 0x, the request
\* goes no further, fails with the no-contract error, gives no result and
\* stores nothing under its key; the cache is as it was, unless the chain-id
\* read that opens the call reported another chain than the wrapper's and
\* setChainId cleared it.
C4_NoContractStoresNothing ==
  /\ rq.code \notin {Undef, EmptyCode}
  /\ last.request.code \in {Undef, EmptyCode} =>
        /\ last.kind = "NoContract"
        /\ last.result = NoResult
        /\ abiCache[last.request.cacheKey] = NoEntry
        /\ last.request.changedCache => last.request.chainChanged
        /\ last.request.chainChanged => abiCache = ClearedCache

C4_Witness ==
  /\ last.kind = "NoContract"
  /\ last.request.code = EmptyCode
  /\ ~last.request.changedCache
  /\ \E k \in CacheKeys : abiCache[k] # NoEntry

\* C5: parseContract ends with a result, with the invalid-address error or
\* with the no-contract error; no other failure reaches the caller.
C5_OnlyTwoErrorsPropagate ==
  last.kind \in {"none", "ok", "InvalidAddress", "NoContract"}

\* The function entries of an ABI that carry a selector.
FunctionEntries(abi) ==
  {i \in 1..Len(abi) : abi[i].type = "function" /\ abi[i].selector # Undef}

\* An entry is the placeholder of its selector: named func_<selector without
\* 0x>, with no inputs and no outputs.
IsPlaceholder(item) ==
  /\ item.name = "func_" \o Slice2(item.selector)
  /\ item.inputs = <<>>
  /\ item.outputs = <<>>

AllPlaceholders(abi, unmatched) ==
  \A i \in FunctionEntries(abi) : abi[i].selector \in unmatched => IsPlaceholder(abi[i])

\* C6: of a result built from bytecode, every function entry whose selector
\* no signature source matched is named func_<selector without 0x> and has
\* empty inputs and outputs, in the standard, the fallback and the manual
\* branch alike.
C6_UnmatchedSelectorsBecomePlaceholders ==
  (last.kind = "ok" /\ ~last.hit) =>
     IF last.request.branch = "manual"
     THEN /\ AllPlaceholders(last.request.enhancedAbi, last.request.unmatched)
          /\ AllPlaceholders(last.request.enhancedImplAbi, last.request.unmatchedImpl)
     ELSE AllPlaceholders(last.result.abi, last.request.unmatched)

\* The entries of abi for one selector, in order.
EntriesOf(abi, selector) ==
  SelectSeq(abi, LAMBDA item : item.type = "function" /\ item.selector = selector)

SelectorsOf(abi) == {abi[i].selector : i \in FunctionEntries(abi)}

\* C7: when the proxy's ABI and the implementation's ABI both have an entry
\* for a selector, the merged result has the implementation's entry for it
\* and not the proxy's.
C7_ImplementationEntryWinsCollision ==
  (last.kind = "ok" /\ ~last.hit /\ last.request.proxyImplementation # Null) =>
     \A selector \in SelectorsOf(last.request.enhancedAbi)
                      \cap SelectorsOf(last.request.enhancedImplAbi) :
        EntriesOf(last.result.abi, selector)
           = EntriesOf(last.request.enhancedImplAbi, selector)

UniqueSelectors(abi) ==
  \A i, j \in FunctionEntries(abi) : abi[i].selector = abi[j].selector => i = j

\* C8: no result of parseContract, returned or cached, has two function
\* entries with the same selector.
C8_NoTwoEntriesShareSelector ==
  /\ last.kind = "ok" => UniqueSelectors(last.result.abi)
  /\ \A k \in CacheKeys : abiCache[k] # NoEntry => UniqueSelectors(abiCache[k].abi)

\* A slot qualifies when its value is not zero, its low 20 bytes are a
\* well-formed address and that address has code.
Qualifies(view) ==
  /\ view.storage.kind = "word"
  /\ view.storage # ZeroWord
  /\ isAddress("0x" \o view.storage.lo)
  /\ view.code \notin {"error", Undef, EmptyCode}

\* The candidate of the first of the well-known slots that qualifies.
FirstQualifying ==
  IF \E i \in DOMAIN WellKnownSlots : Qualifies(world[WellKnownSlots[i]])
  THEN LET first == CHOOSE i \in DOMAIN WellKnownSlots :
                       /\ Qualifies(world[WellKnownSlots[i]])
                       /\ \A j \in 1..(i - 1) : ~Qualifies(world[WellKnownSlots[j]])
       IN "0x" \o world[WellKnownSlots[first]].storage.lo
  ELSE Null

\* C9: manuallyCheckForProxy returns the candidate of the first slot that
\* qualifies among EIP-1967 logic, EIP-1967 beacon, legacy OpenZeppelin, UUPS
\* and slot 0, in that order, and null when none qualifies.
C9_FirstQualifyingSlotWins ==
  found # NotProbed => found.impl = FirstQualifying

\* A read of the slot, or of the code of its candidate, threw.
ReadFailed(view) == view.storage.kind = "error" \/ view.code = "error"

\* C10: a read that throws on one slot does not keep manuallyCheckForProxy
\* from reading the slot after it, and when the read of every slot throws the
\* function has read them all and returns null.
C10_ReadErrorsDoNotStopProbing ==
  found # NotProbed =>
     /\ \A i \in 1..(Len(commonImplementationSlots) - 1) :
           (i <= Len(found.probed) /\ ReadFailed(world[commonImplementationSlots[i]]))
              => /\ i + 1 <= Len(found.probed)
                 /\ found.probed[i + 1] = commonImplementationSlots[i + 1]
     /\ (\A i \in DOMAIN commonImplementationSlots :
            world[commonImplementationSlots[i]].storage = StorageError)
           => (found.impl = Null /\ found.probed = commonImplementationSlots)

C10_Witness ==
  /\ found # NotProbed
  /\ world[SlotEip1967Logic].storage = StorageError
  /\ world[SlotEip1967Beacon].code = "error"
  /\ found.probed = SubSeq(commonImplementationSlots, 1, 3)
  /\ found.impl = "0x" \o world[SlotLegacyOZ].storage.lo

\* The candidate of the first slot the function reads that qualifies.
FirstQualifyingRead ==
  IF \E i \in DOMAIN commonImplementationSlots :
        Qualifies(world[commonImplementationSlots[i]])
  THEN LET first == CHOOSE i \in DOMAIN commonImplementationSlots :
                       /\ Qualifies(world[commonImplementationSlots[i]])
                       /\ \A j \in 1..(i - 1) :
                             ~Qualifies(world[commonImplementationSlots[j]])
       IN "0x" \o world[commonImplementationSlots[first]].storage.lo
  ELSE Null

\* C11: what manuallyCheckForProxy returns is decided by the contents of the
\* slots it reads alone: the candidate of the first slot that qualifies, and
\* null when none does, whether or not the selectors contain a
\* proxy-management selector.
C11_HeuristicDoesNotDecide ==
  found # NotProbed => found.impl = FirstQualifyingRead

C11_Witness ==
  /\ found # NotProbed
  /\ isLikelyProxy(found.selectors)
  /\ \A i \in DOMAIN commonImplementationSlots :
        ~Qualifies(world[commonImplementationSlots[i]])
  /\ found.impl = Null

\* C12: a result whose address is another contract than the one asked for
\* (the implementation the request was resolved to) carries the proxy
\* information naming that address, on every branch.
C12_ProxyInfoReported ==
  (last.kind = "ok" /\ ~last.hit
     /\ toLowerCase(last.result.address) # toLowerCase(last.request.address))
    => last.result.proxy = [implementation |-> last.result.address]

\* The ERC-20 fallback changed the entry.
FallbackApplied ==
  /\ backfilled # NotFilled
  /\ OutputsMissing(OpenChainOutputs(entry, backfilled.answer))
  /\ backfilled.item # OpenChainOutputs(entry, backfilled.answer)

\* C13: an entry whose outputs are already resolved (a non-empty list) leaves
\* processABI and getFunctionFromABI with the same outputs and the same
\* state mutability.
C13_BackfillNeverOverrides ==
  (backfilled # NotFilled /\ entry.outputs # NoList /\ entry.outputs # <<>>) =>
     /\ backfilled.item.outputs = entry.outputs
     /\ backfilled.item.stateMutability = entry.stateMutability

C13_Witness ==
  /\ backfilled # NotFilled
  /\ entry.name = "transfer"
  /\ entry.inputs = <<Param("param0", "address"), Param("param1", "uint256")>>
  /\ entry.outputs = <<Param("output0", "uint8")>>
  /\ backfilled.item = entry

\* The entry matches a fragment of the table exactly: same name, an input
\* list of the same length, the same types position by position.
ExactMatch(func) ==
  \E i \in DOMAIN FALLBACK_ERC20_ABI :
     /\ func.name = FALLBACK_ERC20_ABI[i].name
     /\ func.inputs # NoList
     /\ Len(func.inputs) = Len(FALLBACK_ERC20_ABI[i].inputs)
     /\ \A j \in 1..Len(func.inputs) :
           func.inputs[j].type = FALLBACK_ERC20_ABI[i].inputs[j].type

\* C14: an entry receives a fragment's outputs and mutability only if it
\* matches the fragment exactly; an entry with a placeholder name, without
\* an input list or with other inputs is never back-filled.
C14_BackfillMatchesExactly ==
  FallbackApplied => ExactMatch(entry)

\* The place of a step in the order VerifiedLookup, BytecodeFallback,
\* ProxyCheck, OutputBackfill, Cache.
StepRank(step) ==
  CASE step = "VerifiedLookup"   -> 1
    [] step = "BytecodeFallback" -> 2
    [] step = "ProxyCheck"       -> 3
    [] step = "OutputBackfill"   -> 4
    [] step = "Cache"            -> 5

Before(steps, first, second) ==
  \A j \in 1..Len(steps) :
     steps[j] = second => \E i \in 1..(j - 1) : steps[i] = first

\* C15: the steps of every request come in the order VerifiedLookup,
\* BytecodeFallback, ProxyCheck, OutputBackfill, Cache: the result is written
\* to the cache only after the output back-fill, and the bytecode path is
\* entered only after the verified lookup was attempted.
C15_StepsInOrder ==
  \A r \in Requests :
     /\ \A i, j \in 1..Len(r.steps) :
           i < j => StepRank(r.steps[i]) <= StepRank(r.steps[j])
     /\ Before(r.steps, "OutputBackfill", "Cache")
     /\ Before(r.steps, "VerifiedLookup", "BytecodeFallback")

\* C16: once a result is stored in the cache, no step changes a field of the
\* stored entry; the entry stays as it is until a clear removes it.
C16_CacheEntriesWriteOnce ==
  [][\A k \in CacheKeys :
        abiCache[k] # NoEntry => abiCache'[k] \in {abiCache[k], NoEntry}]_vars

\* A step removes an entry from the cache.
EntryRemoved == \E k \in CacheKeys : abiCache[k] # NoEntry /\ abiCache'[k] = NoEntry

AsNotFound(answers) ==
  [lookup |-> IF answers.lookup.kind = "timeout"
              THEN [kind |-> "sigs", sigs |-> <<>>] ELSE answers.lookup,
   direct |-> IF answers.direct.kind = "fetchError"
              THEN [kind |-> "ok", results |-> <<>>] ELSE answers.direct]

Enhanced == backfilled # NotFilled /\ backfilled.via = "enhanceAbiWithSignatures"

\* C18: the entry enhanceAbiWithSignatures produces when a call to a
\* signature source times out is the entry it produces when that source
\* answers with no signatures.
C18_TimeoutEqualsNotFound ==
  Enhanced =>
     backfilled.item
        = enhanceAbiWithSignatures(<<entry>>, <<AsNotFound(backfilled.answers)>>)[1]

\* The selector of a signature text: the first 4 bytes of its keccak256.
SelectorOfText(text) ==
  CASE text = "upgradeTo(address)"        -> "0x3659cfe6"
    [] text = "transfer(address,uint256)" -> "0xa9059cbb"
    [] text = "owner()"                   -> "0x8da5cb5b"
    [] OTHER                              -> "0x00000000"

RECURSIVE TypeList(_)
TypeList(inputs) ==
  IF inputs = <<>> THEN ""
  ELSE IF Len(inputs) = 1 THEN inputs[1].type
  ELSE inputs[1].type \o "," \o TypeList(Tail(inputs))

\* name(inputTypes) of an entry
CanonicalText(item) == item.name \o "(" \o TypeList(item.inputs) \o ")"

\* C19: every entry that enhanceAbiWithSignatures resolved has a name and
\* inputs whose recomputed selector is the entry's selector: a candidate that
\* recomputes to another selector is not applied.
C19_ResolvedEntriesRoundTrip ==
  (Enhanced /\ backfilled.item.name \notin {Undef, PlaceholderName(entry)}) =>
     SelectorOfText(CanonicalText(backfilled.item)) = entry.selector

RECURSIVE TopLevelSplit(_, _, _)
\* The pieces of toks between the commas at nesting depth 0, piece being the
\* piece under way.
TopLevelSplit(toks, depth, piece) ==
  IF toks = <<>> THEN <<piece>>
  ELSE IF Head(toks) = "," /\ depth = 0
  THEN <<piece>> \o TopLevelSplit(Tail(toks), 0, "")
  ELSE TopLevelSplit(Tail(toks),
                     IF Head(toks) = "(" THEN depth + 1
                     ELSE IF Head(toks) = ")" THEN depth - 1 ELSE depth,
                     piece \o Head(toks))

\* The index of the ")" that closes the "(" at index open.
ClosingParen(sig, open) ==
  CHOOSE q \in (open + 1)..Len(sig) :
    /\ sig[q] = ")"
    /\ Cardinality({i \in open..q : sig[i] = "("})
         = Cardinality({i \in open..q : sig[i] = ")"})
    /\ \A r \in (open + 1)..(q - 1) :
          Cardinality({i \in open..r : sig[i] = "("})
            # Cardinality({i \in open..r : sig[i] = ")"})

\* The types of the top-level parameters of a signature with parameters.
TopLevelTypes(sig) ==
  LET open == IndexFrom(sig, "(", 1)
  IN TopLevelSplit(SubSeq(sig, open + 1, ClosingParen(sig, open) - 1), 0, "")

Parsed == backfilled # NotFilled /\ backfilled.via = "processSignature"

\* C20: for a signature with parameters, processSignature gives the entry the
\* text before the first parenthesis as its name and one input for each
\* top-level parameter, carrying the parameter's whole type, nested tuples
\* and arrays included.
C20_SplitsOnTopLevelCommas ==
  (Parsed /\ backfilled.signature \in {SigUpgradeTo, SigTransfer, SigNested}) =>
     /\ backfilled.item.name = backfilled.signature[1]
     /\ [i \in 1..Len(backfilled.item.inputs) |-> backfilled.item.inputs[i].type]
          = TopLevelTypes(backfilled.signature)

\* The step is the cache lookup of a page load.
LoadLookup == page.pc = "idle" /\ page' # page

\* The record getCachedContractABI finds for the key of the load, if any, is
\* verified or younger than 7 days.
ServableRecord(contractAddress, chainId) ==
  \E i \in 1..Len(cachedABIs) :
     /\ i = FirstRecord(cachedABIs, toLowerCase(contractAddress), chainId)
     /\ (cachedABIs[i].verified \/ now - cachedABIs[i].timestamp < SevenDays)

\* The step is the write of a cacheContractABI that a page load started.
LoadWrite ==
  \E c \in 1..MaxDbCalls :
     dbCalls[c].pc = "write" /\ dbCalls'[c].pc = "idle" /\ dbCalls[c].by = "load"

VerifiedRewritten ==
  \E i \in 1..Len(cachedABIs) : cachedABIs[i].verified /\ cachedABIs'[i] # cachedABIs[i]

\* C21: a lookup that reads the table returns the stored record of the key
\* exactly when that record is verified or younger than 7 days, and the
\* write of a page load never rewrites a verified record.
C21_CacheRecordFreshness ==
  [][/\ (LoadLookup /\ page'.readOk) =>
          (page'.cachedData # NoData <=> ServableRecord(page'.contractAddress, page'.chainId))
     /\ LoadWrite => ~VerifiedRewritten]_vars

\* C30: the table holds at most one record per (lowercased address, chainId).
C30_OneRecordPerKey ==
  \A i, j \in 1..Len(cachedABIs) :
     (cachedABIs[i].address = cachedABIs[j].address
        /\ cachedABIs[i].chainId = cachedABIs[j].chainId) => i = j

\* The CLI ran on bytecode in which the analysis recognises no selector, and
\* did not return a verified ABI.
CliNoSelectors ==
  /\ cliRun.ran
  /\ cliRun.bytecode \in Codes
  /\ selectorsFromBytecode(cliRun.bytecode) = <<>>
  /\ ~(cliRun.outcome.kind = "ok" /\ cliRun.outcome.source = "block-explorer")

\* C22: bytecode in which no selector is recognised gives a result with an
\* empty interface, not a failure; empty or missing bytecode gives the
\* no-contract error.
C22_EmptySelectorSetIsNotFailure ==
  /\ CliNoSelectors => (cliRun.outcome.kind = "ok" /\ cliRun.outcome.abi = <<>>)
  /\ (cliRun.ran /\ NoBytecode(cliRun.bytecode)) => cliRun.outcome.kind = "NoBytecode"

\* The aggregated lookup returned a signature.
LookupYields(answers) == answers.lookup.kind = "sigs" /\ answers.lookup.sigs # <<>>

\* C23: the aggregated lookup is consulted first and its signature, when it
\* has one, is the one applied, with no other source consulted;
\* 4byte.directory is consulted exactly when the lookup returned nothing,
\* timed out or failed; the placeholder name is given only after both.
C23_SourceFallThroughOrder ==
  Enhanced =>
    /\ Head(backfilled.consulted) = "signatureLookup"
    /\ LookupYields(backfilled.answers) =>
         /\ backfilled.consulted = <<"signatureLookup">>
         /\ backfilled.item = processSignature(entry, backfilled.answers.lookup.sigs[1])
    /\ ~LookupYields(backfilled.answers) =>
         backfilled.consulted = <<"signatureLookup", "4byte">>
    /\ backfilled.item.name = PlaceholderName(entry) =>
         backfilled.consulted = <<"signatureLookup", "4byte">>

\* The lookup timed out and 4byte.directory named the entry.
C23_Witness ==
  /\ Enhanced
  /\ backfilled.answers.lookup.kind = "timeout"
  /\ backfilled.answers.direct.kind = "ok"
  /\ backfilled.consulted = <<"signatureLookup", "4byte">>
  /\ backfilled.item.name = "transfer"

\* C24: a result built from the analysis of the bytecode has gone through
\* the proxy check before it was cached and returned.
C24_BytecodeResultsReachProxyCheck ==
  (last.kind = "ok" /\ ~last.hit /\ "BytecodeFallback" \in Range(last.request.steps)) =>
     Before(last.request.steps, "ProxyCheck", "Cache")

\* The step ends the proxy branch with the implementation unread,
\* empty or unanalysable.
ImplementationFails ==
  /\ pc = "impl"
  /\ pc' = "idle"
  /\ last'.request.implCode \in {"error", Undef, EmptyCode} \/ ~last'.request.implAnalysed

\* C25: when the implementation's code cannot be read or analysed, or is
\* empty, parseContract returns the proxy's own entries and caches them.
C25_ImplementationFailureKeepsProxy ==
  [][ImplementationFails =>
        /\ last'.kind = "ok"
        /\ last'.result.abi = rq.enhancedAbi
        /\ abiCache'[rq.cacheKey] = last'.result]_vars

C25_Witness ==
  /\ last.kind = "ok"
  /\ last.request.proxyImplementation # Null
  /\ last.request.implCode = "error"
  /\ last.result.abi # <<>>

\* How far a parseContract has got.
Progress(p) ==
  CASE p = "chainId" -> 1
    [] p = "code" -> 2
    [] p \in {"enhance", "autoload"} -> 3
    [] p \in {"proxy", "fallback"} -> 4
    [] p = "impl" -> 5
    [] p = "implEnhance" -> 6
    [] OTHER -> 7

\* C28: every step of a parseContract in flight takes it further, the slot
\* probe reading each slot of the contract at most once and never starting
\* again once an implementation is found: the implementation is analysed,
\* not probed, and the call ends after a bounded number of reads.
C28_AtMostOneHop ==
  [][(pc # "idle" /\ <<pc, rq>>' # <<pc, rq>>) =>
        /\ \/ Progress(pc') > Progress(pc)
           \/ /\ pc = "proxy" /\ pc' = "proxy"
              /\ rq'.slot > rq.slot
              /\ rq'.slot <= Len(commonImplementationSlots)
        /\ rq'.reads <= Len(commonImplementationSlots)
        /\ last'.request.reads <= Len(commonImplementationSlots)]_vars

\* A proxy whose slot points at itself was parsed.
C28_Witness ==
  /\ last.kind = "ok"
  /\ last.request.proxyImplementation = toLowerCase(last.request.address)
  /\ last.request.implCode = CodeProxy
  /\ last.request.enhancedImplAbi # <<>>


\* The step returns a result from the ABI cache.
ServedFromCache ==
  /\ last'.kind = "ok"
  /\ last'.hit
  /\ (pc = "chainId" /\ pc' = "idle") \/ (\E a \in AddressInputs : GetCachedABI(a))

\* C29: a result returned from the ABI cache was computed on the chain that
\* is the wrapper's current chain id when it is returned.
C29_NoCrossChainCacheReads ==
  [][ServedFromCache => last'.result.computedOn = currentChainId']_vars

\* ------------------------------------------------------------------------
\* The read/write convenience layer of the wrapper.  getFunctionFromABI
\* picks the function a call names in the ABI parseContract returned and
\* back-fills its outputs; readContract and prepareWriteContract use it.
\* An argument list is modelled by its length alone.
\* ------------------------------------------------------------------------

MaxAbiLen == 2

CallItem(sel, name, ins, outs, mut) ==
  [type |-> "function", selector |-> sel, name |-> name, inputs |-> ins,
   outputs |-> outs, stateMutability |-> mut]

\* The items of the ABIs a call is made on: three overloads of transfer,
\* two of them with two inputs, entries without outputs or mutability as
\* the bytecode analysis leaves them, a view and a pure function, an entry
\* without inputs, and an event.
CallItems ==
  {CallItem(SelTransfer, "transfer",
            <<Param("to", "address"), Param("amount", "uint256")>>, NoList, "nonpayable"),
   CallItem(Undef, "transfer", <<Param("to", "address")>>, <<>>, Undef),
   CallItem(Undef, "transfer",
            <<Param("amount", "uint256"), Param("to", "address")>>,
            <<Param("", "bool")>>, "nonpayable"),
   CallItem(Undef, "balanceOf", <<Param("owner", "address")>>, NoList, Undef),
   CallItem(Undef, "owner", <<>>, <<Param("", "address")>>, "view"),
   CallItem(Undef, "version", <<>>, <<Param("", "string")>>, "pure"),
   CallItem(SelUnknown, "mint", NoList, <<>>, "payable"),
   EventItem}

CallAbis == UNION {[1..n -> CallItems] : n \in 0..MaxAbiLen}

CallNames == {"transfer", "balanceOf", "owner", "version", "mint", "missing"}

\* An argument of a call: its value plays no part.
Arg == Param("arg", "value")

CallArgs == {NoList, <<>>, <<Arg>>, <<Arg, Arg>>}

\* ContractCallParams: a name and arguments, with a sighash or a signature
\* when the caller gives one.
CallParams ==
  {[functionName |-> n, args |-> a, sighash |-> Undef, signature |-> Undef] :
     n \in CallNames, a \in CallArgs}
  \cup {[functionName |-> "transfer", args |-> <<Arg, Arg>>, sighash |-> h,
         signature |-> Undef] : h \in {SelTransfer, "0x7472616e"}}
  \cup {[functionName |-> "transfer", args |-> <<Arg, Arg>>, sighash |-> Undef,
         signature |-> s] : s \in {"transfer(address,uint256)", "transfer(address)"}}

\* getFunctionSignature(name, inputs)
getFunctionSignature(name, inputs) == name \o "(" \o JoinTypes(inputs) \o ")"

\* keccak256 of the wrapper is a placeholder that writes the bytes of its
\* input in hex, so the first 10 characters of its answer are "0x" and the
\* hex of the first four characters of the signature: those of the name.
HexOfPrefix(name) ==
  CASE name = "transfer"  -> "7472616e"
    [] name = "balanceOf" -> "62616c61"
    [] name = "owner"     -> "6f776e65"
    [] name = "version"   -> "76657273"
    [] name = "mint"      -> "6d696e74"
    [] OTHER              -> "756e6465"

\* getFunctionSighash(getFunctionSignature(name, inputs))
getFunctionSighash(name, inputs) == "0x" \o HexOfPrefix(name)

\* abi.filter((item) => item.type === "function"), as indices
FunctionIndices(abi) == {i \in DOMAIN abi : abi[i].type = "function"}

\* The first of a set of indices, 0 when there is none.
FirstIndex(S) == IF S = {} THEN 0 ELSE CHOOSE i \in S : \A j \in S : i <= j

\* functions.find(f => ...) where the callback builds the signature of f and
\* matching holds the indices it answers true for: inputs.map fails on an
\* entry without inputs that find reaches.
FindBySignature(abi, matching) ==
  LET stops == {i \in FunctionIndices(abi) :
                  \/ abi[i].inputs = NoList
                  \/ i \in matching}
      i == FirstIndex(stops)
  IN IF i = 0 THEN [kind |-> "undefined"]
     ELSE IF abi[i].inputs = NoList THEN [kind |-> "error", error |-> "TypeError"]
     ELSE [kind |-> "found", index |-> i]

\* The name-only branch: the overloads of the name, then those with as
\* many inputs as there are arguments.
FindByName(abi, params) ==
  LET matchingFuncs == {i \in FunctionIndices(abi) : abi[i].name = params.functionName}
      argsLength == Len(OrEmpty(params.args))
      matchByArgs == {i \in matchingFuncs : Len(OrEmpty(abi[i].inputs)) = argsLength}
  IN IF Cardinality(matchingFuncs) > 1
     THEN IF Cardinality(matchByArgs) = 1
          THEN [kind |-> "found", index |-> FirstIndex(matchByArgs)]
          ELSE [kind |-> "error", error |-> "Ambiguous"]
     ELSE IF matchingFuncs = {} THEN [kind |-> "undefined"]
     ELSE [kind |-> "found", index |-> FirstIndex(matchingFuncs)]

\* getFunctionFromABI: the selection of foundFunction
foundFunction(abi, params) ==
  IF params.sighash # Undef
  THEN FindBySignature(abi,
         {i \in FunctionIndices(abi) :
            getFunctionSighash(abi[i].name, abi[i].inputs) = params.sighash})
  ELSE IF params.signature # Undef
  THEN FindBySignature(abi,
         {i \in FunctionIndices(abi) :
            getFunctionSignature(abi[i].name, abi[i].inputs) = params.signature})
  ELSE FindByName(abi, params)

\* getFunctionFromABI(abi, params): the function selected, back-filled
getFunctionFromABI(abi, params, answer) ==
  LET sel == foundFunction(abi, params) IN
  IF sel.kind = "found"
  THEN [kind |-> "found", index |-> sel.index,
        func |-> getFunctionFromABIEntry(abi[sel.index], answer)]
  ELSE sel

\* The back-fill writes into the object it found: the entry of the ABI.
AbiAfter(abi, got) ==
  IF got.kind = "found" THEN [abi EXCEPT ![got.index] = got.func] ELSE abi

\* The function whose mutability prepareWriteContract tests, given the
\* entry as it was in the ABI and as getFunctionFromABI returned it.
TestedBeforeBackfill(raw, func) == raw

TestedFunction(raw, func) == func

ReadOnly(func) == func.stateMutability \in {"view", "pure"}

\* prepareWriteContract given what parseContract and OpenChain answer
prepareWriteContract(call, answer) ==
  IF ~call.parsed THEN [kind |-> "error", error |-> "parseContract"]
  ELSE LET got == getFunctionFromABI(call.abi, call.params, answer) IN
       IF got.kind = "error" THEN got
       ELSE IF got.kind = "undefined" THEN [kind |-> "error", error |-> "NotFound"]
       ELSE IF ReadOnly(TestedFunction(call.abi[got.index], got.func))
       THEN [kind |-> "error", error |-> "ReadOnly"]
       ELSE [kind |-> "data", address |-> call.address, abi |-> <<got.func>>,
             functionName |-> got.func.name, args |-> OrEmpty(call.params.args)]

\* readContract given what parseContract, OpenChain and the node answer
readContract(call, answer, readOk) ==
  IF ~call.parsed THEN [kind |-> "error", error |-> "parseContract"]
  ELSE LET got == getFunctionFromABI(call.abi, call.params, answer) IN
       IF got.kind = "error" THEN got
       ELSE IF got.kind = "undefined" THEN [kind |-> "error", error |-> "NotFound"]
       ELSE IF ~readOk THEN [kind |-> "error", error |-> "readContract"]
       ELSE [kind |-> "result", address |-> call.address, abi |-> <<got.func>>,
             functionName |-> got.func.name, args |-> OrEmpty(call.params.args)]

\* The calls that have not been made: what parseContract returns for the
\* address, and the parameters of the call.
Calls ==
  {[parsed |-> TRUE, address |-> "0xab", abi |-> abi, params |-> params] :
     abi \in CallAbis, params \in CallParams}
  \cup {[parsed |-> FALSE, address |-> "0xab", abi |-> <<>>, params |-> params] :
          params \in CallParams}

\* What a call leaves behind: its outcome, the entry it selected as it was
\* in the ABI (raw), and the ABI with the back-fill written into it.
Called(via, call, answer, out) ==
  LET got == IF call.parsed THEN getFunctionFromABI(call.abi, call.params, answer)
             ELSE [kind |-> "undefined"]
  IN /\ backfilled' = [via |-> via, answer |-> answer, out |-> out,
                       index |-> IF got.kind = "found" THEN got.index ELSE 0,
                       raw |-> IF got.kind = "found" THEN call.abi[got.index]
                               ELSE BlankEntry]
     /\ entry' = [call EXCEPT !.abi = AbiAfter(call.abi, got)]

PrepareWriteContract(answer) ==
  /\ backfilled = NotFilled
  /\ Called("prepareWriteContract", entry, answer, prepareWriteContract(entry, answer))
  /\ UNCHANGED <<wrapperVars, proxyVars, dbVars, cliVars>>

ReadContract(answer, readOk) ==
  /\ backfilled = NotFilled
  /\ Called("readContract", entry, answer, readContract(entry, answer, readOk))
  /\ UNCHANGED <<wrapperVars, proxyVars, dbVars, cliVars>>

InitCall ==
  /\ currentChainId = DefaultChainId
  /\ clientChain = DefaultChainId
  /\ requestedChain = NoChain
  /\ abiCache = ClearedCache
  /\ pc = "idle"
  /\ rq = NoRequest
  /\ last = NoOutcome
  /\ world = BlankWorld
  /\ found = NotProbed
  /\ entry \in Calls
  /\ backfilled = NotFilled
  /\ DbAtRest
  /\ cliRun = NoCliRun

NextCall ==
  \/ \E answer \in OpenChainAnswers : PrepareWriteContract(answer)
  \/ \E answer \in OpenChainAnswers, readOk \in BOOLEAN : ReadContract(answer, readOk)

SpecCall == InitCall /\ [][NextCall]_vars

\* The call was by name only, on an ABI parseContract returned.
NameOnlyLookup ==
  /\ backfilled # NotFilled
  /\ entry.parsed
  /\ entry.params.sighash = Undef
  /\ entry.params.signature = Undef

\* The overloads of the name called that take as many inputs as the call
\* has arguments.
OverloadsOfArgumentCount ==
  {i \in DOMAIN entry.abi :
     /\ entry.abi[i].type = "function"
     /\ entry.abi[i].name = entry.params.functionName
     /\ Len(OrEmpty(entry.abi[i].inputs)) = Len(OrEmpty(entry.params.args))}

AmbiguousRaised == backfilled.out = [kind |-> "error", error |-> "Ambiguous"]

\* C26: a lookup by name only raises the ambiguous-selection error only when
\* more than one overload of the name has as many inputs as the call has
\* arguments; with one such overload, or none, it does not raise it.
C26_AmbiguousOnlyOnSameArgumentCount ==
  NameOnlyLookup => (AmbiguousRaised => Cardinality(OverloadsOfArgumentCount) > 1)

\* The function the call selected, as the back-fill left it in the ABI.
SeenAfterBackfill == entry.abi[backfilled.index]

\* C27: prepareWriteContract returns no transaction data for a function
\* whose state mutability after the back-fill of getFunctionFromABI is view
\* or pure: it rejects with the read-only error.
C27_WritePreparationRejectsReadOnly ==
  (backfilled # NotFilled /\ backfilled.via = "prepareWriteContract"
     /\ backfilled.index # 0)
    => /\ SeenAfterBackfill.stateMutability \in {"view", "pure"}
            => backfilled.out = [kind |-> "error", error |-> "ReadOnly"]
       /\ backfilled.out.kind = "data"
            => /\ backfilled.out.abi[1].stateMutability \notin {"view", "pure"}
               /\ backfilled.out.abi[1] = SeenAfterBackfill

\* A function that was not read-only in the ABI, found view after the
\* back-fill and rejected.
C27_Witness ==
  /\ backfilled # NotFilled
  /\ backfilled.via = "prepareWriteContract"
  /\ backfilled.index # 0
  /\ backfilled.raw.stateMutability \notin {"view", "pure"}
  /\ SeenAfterBackfill.stateMutability = "view"
  /\ backfilled.out = [kind |-> "error", error |-> "ReadOnly"]

====
